---- MODULE Spec2Model ----
(***************************************************************************)
(* A model of FactorFrameworkV2: the admission rule, the evaluator         *)
(* registry, the forward-return builder, the common evaluator and its      *)
(* per-date kernels, the factor engine, the factor store, the catalog      *)
(* lookups and the automatic batch that admits factors into the catalog.   *)
(*                                                                         *)
(* Floating-point values are modelled as records [nan, v]: NaN is the one  *)
(* record with nan = TRUE, every other value is an integer v counted in    *)
(* units of 1/Grid (so 1.0 is Grid).  Every comparison with NaN is FALSE,  *)
(* as for IEEE floats in Python.                                           *)
(***************************************************************************)
EXTENDS Integers, Sequences, FiniteSets, TLC

\* ------------------------------------------------------------------ bounds
\* Resolution of the value grid: the model's floats are k/Grid.
Grid == 1
\* Largest horizon drawn.
MaxH == 2
\* Number of distinct evaluator objects offered to the registry.
MaxImpl == 2
\* Number of trading dates of the price panel.
MaxDates == 3
\* Longest list of horizons handed to build_forward_returns.
MaxHLen == 2
\* Number of registered factors.
MaxFactors == 2
\* Mantissa bits of the floating-point format the evaluator's panels use.
Prec == 3
\* Binary places below 1 of that format (the exponent floor).
FracBits == 2
\* Dates of an evaluated panel.
MaxEvalDates == 2
\* The small group count evaluate is called with besides its default.
SmallQ == 2
\* entries of the index universe of an aligned pair of series
MaxKeys == 3
\* Largest value given to a factor parameter.
MaxParam == 2
\* Number of descriptions an entry of a store is saved with.
MaxDescr == 2

VARIABLES
    metrics,      \* admission: the metrics mapping handed to is_pass
    rule,         \* admission: the AdmissionRule (its four thresholds)
    horizon,      \* admission: the horizon handed to is_pass
    passed,       \* admission: what the last is_pass call returned
    registry,     \* evaluation/registry.py: _EVAL_REGISTRY, in insertion order
    regResult,    \* registry: the last registration call and how it ended
    df,           \* forward returns: the price panel, indexed by (date, code)
    fwd,          \* forward returns: the last build_forward_returns call and its result
    admission_rule, \* FactorLibrary.admission_rule: <<>> for None, else <<rule>>
    manual_store, \* FactorLibrary.manual_store: (name, version) -> entry
    auto_store,   \* FactorLibrary.auto_store: (name, version) -> entry
    call,         \* library: the last direct call, its arguments and how it ended
    hash_records, \* AutoFactorProcessor.hash_records: factor name -> hash
    hash_file,    \* the JSON file behind hash_records
    force_reprocess, \* AutoFactorProcessor.force_reprocess
    factor_names, \* AutoFactorProcessor.factor_names: <<>> for None, else <<set>>
    phase,        \* process_all: "idle", "running", "done" (returned) or "raised"
    auto_factors, \* process_all: the pending list get_auto_factors returned
    idx,          \* process_all: position of the loop in auto_factors
    results,      \* process_all: factor name -> "True", "False" or "None"
    eval_call,    \* evaluator: the last evaluate call, its arguments and result
    aligned,      \* engine: the last EvaluatorEngine.align call and what it returned
    fac_call,     \* engine: the last evaluate_factors call and what it returned
    kernel,       \* accelerator: the running kernel call, its inputs and sort policy
    pending,      \* accelerator: the prange iterations that have not run yet
    ic_array,     \* accelerator: compute_rank_ic_by_date's output array
    group_returns, \* accelerator: compute_group_return_by_date's output table
    compute_call, \* factor engine: the last compute_all call and the params it used
    base_dir,     \* FactorStore: the entry directories under base_dir and their files
    saved,        \* FactorStore's caller: (name, version) -> the entry last saved, not deleted since
    store_call    \* FactorStore: the last load_entry or list_entries call and its result

admVars == <<metrics, rule, horizon, passed>>
regVars == <<registry, regResult>>
fwdVars == <<df, fwd>>
libVars == <<admission_rule, manual_store, auto_store, call>>
batVars == <<hash_records, hash_file, force_reprocess, factor_names,
             phase, auto_factors, idx, results>>
evVars == <<eval_call>>
engVars == <<aligned, fac_call>>
kerVars == <<kernel, pending, ic_array, group_returns>>
compVars == <<compute_call>>
stoVars == <<base_dir, saved, store_call>>
vars == <<admVars, regVars, fwdVars, libVars, batVars, evVars, engVars, kerVars, compVars,
          stoVars>>

\* ------------------------------------------------------------------ floats
NaN == [nan |-> TRUE, v |-> 0]
Num(n) == [nan |-> FALSE, v |-> n]
\* abs(x): NaN stays NaN.
Abs(x) == IF x.nan THEN NaN ELSE Num(IF x.v < 0 THEN 0 - x.v ELSE x.v)
\* x >= t and x <= t for floats: FALSE when either side is NaN.
Ge(x, t) == (~x.nan) /\ (~t.nan) /\ x.v >= t.v
Le(x, t) == (~x.nan) /\ (~t.nan) /\ x.v <= t.v
\* (x / h) <= t for an integer h >= 1, decided exactly: x <= t * h.
DivLe(x, h, t) == (~x.nan) /\ (~t.nan) /\ x.v <= t.v * h

\* The literals of is_pass's metrics.get(..., default) calls.
ZeroDefault == Num(0)
TurnoverDefault == Num(Grid)

\* ------------------------------------------------------- admission rule
MetricKeys == {"rank_ic_mean", "rank_ic_ir", "top_turnover_20_mean", "monotonic_mean"}
MinKeys == {"rank_ic_mean", "rank_ic_ir", "monotonic_mean"}

\* dict.get(key, default)
Get(m, k, d) == IF k \in DOMAIN m THEN m[k] ELSE d

\* AdmissionRule: the dataclass's four fields.
AdmissionRule(a, b, c, d) ==
    [min_rank_ic |-> a, min_rank_ic_ir |-> b,
     max_top_turnover_20_mean |-> c, min_monotonic_mean |-> d]

is_pass_no_abs(r, m, h) ==
    LET rank_ic_mean == Get(m, "rank_ic_mean", ZeroDefault)
        rank_ic_ir == Get(m, "rank_ic_ir", ZeroDefault)
        top_turnover_20_mean == Get(m, "top_turnover_20_mean", TurnoverDefault)
        monotonic_mean == Get(m, "monotonic_mean", ZeroDefault)
    IN  /\ Ge(rank_ic_mean, Num(r.min_rank_ic))
        /\ Ge(Abs(rank_ic_ir), Num(r.min_rank_ic_ir))
        /\ DivLe(top_turnover_20_mean, h, Num(r.max_top_turnover_20_mean))
        /\ Ge(Abs(monotonic_mean), Num(r.min_monotonic_mean))

is_pass_turnover_default_zero(r, m, h) ==
    LET rank_ic_mean == Get(m, "rank_ic_mean", ZeroDefault)
        rank_ic_ir == Get(m, "rank_ic_ir", ZeroDefault)
        top_turnover_20_mean == Get(m, "top_turnover_20_mean", ZeroDefault)
        monotonic_mean == Get(m, "monotonic_mean", ZeroDefault)
    IN  /\ Ge(Abs(rank_ic_mean), Num(r.min_rank_ic))
        /\ Ge(Abs(rank_ic_ir), Num(r.min_rank_ic_ir))
        /\ DivLe(top_turnover_20_mean, h, Num(r.max_top_turnover_20_mean))
        /\ Ge(Abs(monotonic_mean), Num(r.min_monotonic_mean))

is_pass_turnover_flipped(r, m, h) ==
    LET rank_ic_mean == Get(m, "rank_ic_mean", ZeroDefault)
        rank_ic_ir == Get(m, "rank_ic_ir", ZeroDefault)
        top_turnover_20_mean == Get(m, "top_turnover_20_mean", TurnoverDefault)
        monotonic_mean == Get(m, "monotonic_mean", ZeroDefault)
    IN  /\ Ge(Abs(rank_ic_mean), Num(r.min_rank_ic))
        /\ Ge(Abs(rank_ic_ir), Num(r.min_rank_ic_ir))
        /\ (~top_turnover_20_mean.nan)
        /\ top_turnover_20_mean.v >= r.max_top_turnover_20_mean * h
        /\ Ge(Abs(monotonic_mean), Num(r.min_monotonic_mean))

\* AdmissionRule.is_pass(metrics, horizon)
is_pass(r, m, h) ==
    LET rank_ic_mean == Get(m, "rank_ic_mean", ZeroDefault)
        rank_ic_ir == Get(m, "rank_ic_ir", ZeroDefault)
        top_turnover_20_mean == Get(m, "top_turnover_20_mean", TurnoverDefault)
        monotonic_mean == Get(m, "monotonic_mean", ZeroDefault)
    IN  /\ Ge(Abs(rank_ic_mean), Num(r.min_rank_ic))
        /\ Ge(Abs(rank_ic_ir), Num(r.min_rank_ic_ir))
        /\ DivLe(top_turnover_20_mean, h, Num(r.max_top_turnover_20_mean))
        /\ Ge(Abs(monotonic_mean), Num(r.min_monotonic_mean))

\* ---- inputs of the admission specification
GridVals == {Num(n) : n \in (0 - Grid)..Grid}
FloatVals == GridVals \cup {NaN}
TurnoverVals == {Num(n) : n \in 0..Grid} \cup {NaN}
KeyVals(k) == IF k = "top_turnover_20_mean" THEN TurnoverVals ELSE FloatVals
MetricsMaps ==
    UNION {{m \in [D -> FloatVals] : \A k \in D : m[k] \in KeyVals(k)} : D \in SUBSET MetricKeys}
Thresholds == 0..Grid
Rules ==
    {AdmissionRule(a, b, c, d) : a \in Thresholds, b \in Thresholds,
                                 c \in Thresholds, d \in Thresholds}
Horizons == 1..MaxH

AdmIdle ==
    /\ metrics = <<>>
    /\ rule = AdmissionRule(0, 0, 0, 0)
    /\ horizon = 1
    /\ passed = "unknown"

AdmInit ==
    /\ metrics \in MetricsMaps
    /\ rule \in Rules
    /\ horizon \in Horizons
    /\ passed = "unknown"

\* Python's bool, as the string its repr prints.
Bool(b) == IF b THEN "True" ELSE "False"

\* A call rule.is_pass(metrics, horizon): it returns a bool and assigns nothing.
IsPassCall ==
    /\ passed = "unknown"
    /\ passed' = Bool(is_pass(rule, metrics, horizon))
    /\ UNCHANGED <<metrics, rule, horizon>>

\* r2 is r with exactly one threshold tightened: one min_* raised or
\* max_top_turnover_20_mean lowered, the other three fields equal.
TightenedOnce(r, r2) ==
    \/ /\ r2.min_rank_ic > r.min_rank_ic
       /\ r2 = [r EXCEPT !.min_rank_ic = r2.min_rank_ic]
    \/ /\ r2.min_rank_ic_ir > r.min_rank_ic_ir
       /\ r2 = [r EXCEPT !.min_rank_ic_ir = r2.min_rank_ic_ir]
    \/ /\ r2.max_top_turnover_20_mean < r.max_top_turnover_20_mean
       /\ r2 = [r EXCEPT !.max_top_turnover_20_mean = r2.max_top_turnover_20_mean]
    \/ /\ r2.min_monotonic_mean > r.min_monotonic_mean
       /\ r2 = [r EXCEPT !.min_monotonic_mean = r2.min_monotonic_mean]

\* The rule's fields are reassigned (AdmissionRule is a plain dataclass) to a
\* rule tightened in one threshold, and is_pass is called again on the same
\* metrics and horizon.
Tighten ==
    /\ passed # "unknown"
    /\ \E r2 \in Rules :
          /\ TightenedOnce(rule, r2)
          /\ rule' = r2
          /\ passed' = Bool(is_pass(r2, metrics, horizon))
    /\ UNCHANGED <<metrics, horizon>>


\* ------------------------------------------------- evaluator registry
\* An evaluator object: its name property and its identity (which object it
\* is); wrapped tells a FunctionEvaluator built by register_evaluator from a
\* class-based evaluator handed to add_evaluator.
Evaluator(n, i, w) == [name |-> n, id |-> i, wrapped |-> w]
BuiltinEvaluator == Evaluator("common_eval", 0, FALSE)

\* "name in _EVAL_REGISTRY"
HasName(reg, n) == \E i \in 1..Len(reg) : reg[i].name = n
\* _EVAL_REGISTRY[name]
Lookup(reg, n) == reg[CHOOSE i \in 1..Len(reg) : reg[i].name = n]
\* _EVAL_REGISTRY[name] = ev: a dict replaces the value of a key it holds
\* (the key keeps its position) and appends a new key.
DictSet(reg, ev) ==
    IF HasName(reg, ev.name)
    THEN [i \in 1..Len(reg) |-> IF reg[i].name = ev.name THEN ev ELSE reg[i]]
    ELSE Append(reg, ev)

add_evaluator_overwrite(reg, ev) ==
    [registry |-> DictSet(reg, ev), outcome |-> "ok"]

\* add_evaluator(evaluator): the registry after the call and how it ended.
add_evaluator(reg, ev) ==
    IF HasName(reg, ev.name)
    THEN [registry |-> reg, outcome |-> "KeyError"]
    ELSE [registry |-> DictSet(reg, ev), outcome |-> "ok"]

EvNames == {"common_eval", "rank_ic", "decile"}
EvIds == 1..MaxImpl

RegIdle ==
    /\ registry = <<BuiltinEvaluator>>
    /\ regResult = [op |-> "import", name |-> "common_eval", outcome |-> "ok"]

\* Importing the evaluation package: _EVAL_REGISTRY = {} and then
\* builtins.py registers the common evaluator.
RegInit == RegIdle

\* add_evaluator(ev) with a class-based evaluator.
AddEvaluator ==
    \E n \in EvNames, i \in EvIds :
        LET r == add_evaluator(registry, Evaluator(n, i, FALSE))
        IN  /\ registry' = r.registry
            /\ regResult' = [op |-> "add_evaluator", name |-> n, outcome |-> r.outcome]

\* @register_evaluator(name, default_params) applied to func: the evaluator is
\* named name, or func.__name__ when name is None, and goes through
\* add_evaluator.
RegisterEvaluator ==
    \E name \in EvNames \cup {"None"}, fname \in EvNames, i \in EvIds :
        LET n == IF name = "None" THEN fname ELSE name
            r == add_evaluator(registry, Evaluator(n, i, TRUE))
        IN  /\ registry' = r.registry
            /\ regResult' = [op |-> "register_evaluator", name |-> n, outcome |-> r.outcome]


\* ------------------------------------------------------ forward returns
\* The panel: a DataFrame with MultiIndex (date, code), sorted by date and
\* then code with no duplicate key (LoacalDatasource._load_file sorts it),
\* and a set of columns.  Every cell of a price column holds its own price,
\* different from every other cell's, so a result shows which cells it was
\* computed from.
Dates == 1..MaxDates
Codes == {"A", "B"}
CodeOrd(c) == IF c = "A" THEN 1 ELSE 2
Columns == {"close", "open"}
PriceAt(col, d, c) ==
    IF col = "close" THEN 2 * d + CodeOrd(c)
    ELSE 2 * (d + MaxDates + 1) + CodeOrd(c)

\* Index order of two keys (date, code).
KeyLeq(a, b) == a[1] < b[1] \/ (a[1] = b[1] /\ CodeOrd(a[2]) <= CodeOrd(b[2]))
RECURSIVE SortedRows(_)
SortedRows(S) ==
    IF S = {} THEN <<>>
    ELSE LET m == CHOOSE x \in S : \A y \in S : KeyLeq(x, y)
         IN  <<m>> \o SortedRows(S \ {m})

\* A forward return: missing, or the two prices it was computed from and how.
NoRet == [nan |-> TRUE, kind |-> "nan", fut |-> 0, cur |-> 0]
RetOf(kind, fut, cur) == [nan |-> FALSE, kind |-> kind, fut |-> fut, cur |-> cur]

\* px.groupby(level="code").shift(-h), at row key: the price h rows further
\* down among the rows of key's code, in the panel's row order; missing when
\* the group has no such row.
GroupRows(rows, c) == SelectSeq(rows, LAMBDA r : r[2] = c)
PosIn(seq, x) == CHOOSE i \in 1..Len(seq) : seq[i] = x
ShiftedKey(rows, key, h) ==
    LET g == GroupRows(rows, key[2])
        k == PosIn(g, key)
    IN  IF (k + h) \in 1..Len(g) THEN <<g[k + h]>> ELSE <<>>

ShiftedKeyAnyCode(rows, key, h) ==
    LET k == PosIn(rows, key)
    IN  IF (k + h) \in 1..Len(rows) THEN <<rows[k + h]>> ELSE <<>>

ForwardColumnUngrouped(panel, col, kind, h) ==
    LET rows == SortedRows(panel.index)
    IN  [key \in panel.index |->
            LET f == ShiftedKeyAnyCode(rows, key, h)
            IN  IF f = <<>> THEN NoRet
                ELSE RetOf(kind, PriceAt(col, f[1][1], f[1][2]),
                           PriceAt(col, key[1], key[2]))]

\* One column ret_fwd_{h}d of the result.
ForwardColumn(panel, col, kind, h) ==
    LET rows == SortedRows(panel.index)
    IN  [key \in panel.index |->
            LET f == ShiftedKey(rows, key, h)
            IN  IF f = <<>> THEN NoRet
                ELSE RetOf(kind, PriceAt(col, f[1][1], f[1][2]),
                           PriceAt(col, key[1], key[2]))]

SeqRange(s) == {s[i] : i \in 1..Len(s)}

\* out[key] = value on a dict
DictPut(d, k, v) == [x \in (DOMAIN d) \cup {k} |-> IF x = k THEN v ELSE d[x]]

\* The loop "for h in horizons" of build_forward_returns: each pass shifts
\* the grouped prices, then branches on kind and raises on an unknown one.
RECURSIVE ForwardLoop(_, _, _, _, _)
ForwardLoop(panel, hs, price_col, kind, out) ==
    IF hs = <<>>
    THEN [outcome |-> "ok", where |-> "return", out |-> out]
    ELSE IF kind \in {"simple", "log"}
    THEN ForwardLoop(panel, Tail(hs), price_col, kind,
                     DictPut(out, Head(hs), ForwardColumn(panel, price_col, kind, Head(hs))))
    ELSE [outcome |-> "ValueError", where |-> "kind", out |-> <<>>]

\* build_forward_returns(df, horizons, price_col, kind): how the call ends
\* and, when it returns, the columns of the DataFrame by horizon.
build_forward_returns(panel, horizons, price_col, kind) ==
    IF price_col \notin panel.columns
    THEN [outcome |-> "ValueError", where |-> "price_col", out |-> <<>>]
    ELSE ForwardLoop(panel, horizons, price_col, kind, <<>>)

Panels == [columns : {{"close"}, {"close", "open"}}, index : SUBSET (Dates \X Codes)]
HorizonLists == UNION {[1..n -> Horizons] : n \in 0..MaxHLen}
Kinds == {"simple", "log", "pct"}

NotCalled == [called |-> FALSE, horizons |-> <<>>, price_col |-> "close", kind |-> "simple",
              outcome |-> "none", where |-> "none", out |-> <<>>]

FwdIdle ==
    /\ df = [columns |-> {"close"}, index |-> {}]
    /\ fwd = NotCalled

FwdInit ==
    /\ df \in Panels
    /\ fwd = NotCalled

BuildForwardReturns ==
    /\ ~fwd.called
    /\ \E hs \in HorizonLists, pc \in Columns, k \in Kinds :
          LET r == build_forward_returns(df, hs, pc, k)
          IN  fwd' = [called |-> TRUE, horizons |-> hs, price_col |-> pc, kind |-> k,
                      outcome |-> r.outcome, where |-> r.where, out |-> r.out]
    /\ UNCHANGED df


\* -------------------------------------------------------- factor library
\* A registered factor: FactorSpec's name, version and function (a function
\* object is told apart by the factor it was written for).
FactorNames == 1..MaxFactors
FactorSpec(n) == [name |-> n, version |-> "v1", func |-> n]
FactorSpecs == {FactorSpec(n) : n \in FactorNames}

\* EvalResult as the admission path reads it.
EvalResult(f, h, m) == [factor_name |-> f, horizon |-> h, metrics |-> m]

\* Metrics mappings an evaluation hands over: the empty one of a degenerate
\* evaluation, a strong factor (negative IC, no turnover), a flat one, and
\* one whose rank IC statistics are undefined.
EmptyMetrics == <<>>
StrongMetrics ==
    [k \in MetricKeys |->
        IF k = "top_turnover_20_mean" THEN Num(0)
        ELSE IF k = "rank_ic_mean" THEN Num(0 - Grid) ELSE Num(Grid)]
FlatMetrics ==
    [k \in MetricKeys |-> IF k = "top_turnover_20_mean" THEN Num(Grid) ELSE Num(0)]
UndefinedMetrics ==
    [k \in MetricKeys |->
        IF k \in {"rank_ic_mean", "rank_ic_ir"} THEN NaN
        ELSE IF k = "top_turnover_20_mean" THEN Num(0) ELSE Num(Grid)]
SampleMetrics == {EmptyMetrics, StrongMetrics, FlatMetrics, UndefinedMetrics}

\* A Python call of is_pass with the positional arguments args: binding
\* fails with TypeError unless metrics and horizon are both given.
Call_is_pass(r, args) ==
    IF Len(args) = 2
    THEN [raised |-> "none", value |-> is_pass(r, args[1], args[2])]
    ELSE [raised |-> "TypeError", value |-> FALSE]

FactorEntry(spec, source_type, description, tags, m) ==
    [name |-> spec.name, version |-> spec.version, func |-> spec.func,
     source_type |-> source_type,
     description |-> description, tags |-> tags, last_eval_metrics |-> m]

\* FactorStore.save_entry: writes meta.json and func.pkl under name_version.
save_entry(store, entry) == DictPut(store, <<entry.name, entry.version>>, entry)

\* FactorLibrary.auto_admit_from_eval: how the call ends and the auto store
\* after it.
auto_admit_from_eval(rule_opt, store, spec, eval_result, description, tags) ==
    IF rule_opt = <<>>
    THEN [outcome |-> "False", auto_store |-> store]
    ELSE LET m == eval_result.metrics
             c == Call_is_pass(rule_opt[1], <<m>>)
         IN  IF c.raised # "none"
             THEN [outcome |-> c.raised, auto_store |-> store]
             ELSE IF ~c.value
             THEN [outcome |-> "False", auto_store |-> store]
             ELSE [outcome |-> "True",
                   auto_store |-> save_entry(store,
                       FactorEntry(spec, "auto", description, tags, m))]

RECURSIVE SortedInts(_)
SortedInts(S) ==
    IF S = {} THEN <<>>
    ELSE LET m == CHOOSE x \in S : \A y \in S : x <= y
         IN  <<m>> \o SortedInts(S \ {m})

\* The description and tags try_auto_admit builds for the admitted horizon.
AdmitDescription(h, m) ==
    <<"horizon", h, Get(m, "rank_ic_mean", ZeroDefault), Get(m, "rank_ic_ir", ZeroDefault)>>
AdmitTags(h) == <<<<"auto">>, <<"quantitative">>, <<"horizon_", h>>>>

\* The loop "for horizon in sorted(reports.keys())" of try_auto_admit.
RECURSIVE AdmitLoop(_, _, _, _, _)
AdmitLoop(rule_opt, store, spec, reports, hs) ==
    IF hs = <<>>
    THEN [outcome |-> "False", auto_store |-> store]
    ELSE LET h == Head(hs)
             eval_result == reports[h]
             c == Call_is_pass(rule_opt[1], <<eval_result.metrics, h>>)
         IN  IF c.raised # "none"
             THEN [outcome |-> c.raised, auto_store |-> store]
             ELSE IF c.value
             THEN auto_admit_from_eval(rule_opt, store, spec, eval_result,
                                       AdmitDescription(h, eval_result.metrics), AdmitTags(h))
             ELSE AdmitLoop(rule_opt, store, spec, reports, Tail(hs))

\* AutoFactorProcessor.try_auto_admit(factor_spec, reports)
try_auto_admit(rule_opt, store, spec, reports) ==
    IF DOMAIN reports = {}
    THEN [outcome |-> "False", auto_store |-> store]
    ELSE AdmitLoop(rule_opt, store, spec, reports, SortedInts(DOMAIN reports))

\* ---- inputs of the library specification
LibRules == {AdmissionRule(Grid, Grid, 0, Grid), AdmissionRule(0, 0, Grid, 0)}
\* An entry an earlier session left: a manual one holds the factor's function
\* as registered, an auto one the function as it was when it was admitted.
StoredEntry(n, src) ==
    FactorEntry([FactorSpec(n) EXCEPT !.func = IF src = "auto" THEN 0 ELSE n],
                src, "", <<>>, FlatMetrics)
\* What a store directory holds at start: entries of earlier sessions.
StoreStates(src) ==
    {[key \in {<<n, "v1">> : n \in N} |-> StoredEntry(key[1], src)] : N \in SUBSET FactorNames}
\* reports: one EvalResult per horizon of some set of horizons.
ReportsOf(f, H) ==
    {[h \in H |-> EvalResult(f, h, mm[h])] : mm \in [H -> SampleMetrics]}
AllReports(f) == UNION {ReportsOf(f, H) : H \in SUBSET Horizons}

NoCall == [op |-> "none", spec |-> FactorSpec(1), reports |-> <<>>, outcome |-> "none"]

LibIdle ==
    /\ admission_rule = <<>>
    /\ manual_store = <<>>
    /\ auto_store = <<>>
    /\ call = NoCall

LibInit ==
    /\ admission_rule \in {<<>>} \cup {<<r>> : r \in LibRules}
    /\ manual_store \in StoreStates("manual")
    /\ auto_store \in StoreStates("auto")
    /\ call = NoCall

\* A direct call lib.auto_admit_from_eval(spec, eval_result) with the default
\* description and tags.
AutoAdmitFromEval ==
    \E spec \in FactorSpecs, h \in Horizons, m \in SampleMetrics :
        LET er == EvalResult(spec.name, h, m)
            r == auto_admit_from_eval(admission_rule, auto_store, spec, er, "", <<>>)
        IN  /\ auto_store' = r.auto_store
            /\ call' = [op |-> "auto_admit_from_eval", spec |-> spec,
                        reports |-> [x \in {h} |-> er], outcome |-> r.outcome]
            /\ UNCHANGED <<admission_rule, manual_store>>

\* A call processor.try_auto_admit(spec, reports); the processor holds the
\* library's rule, which its constructor requires to be configured.
TryAutoAdmit ==
    /\ admission_rule # <<>>
    /\ \E spec \in FactorSpecs :
         \E reports \in AllReports(spec.name) :
            LET r == try_auto_admit(admission_rule, auto_store, spec, reports)
            IN  /\ auto_store' = r.auto_store
                /\ call' = [op |-> "try_auto_admit", spec |-> spec,
                            reports |-> reports, outcome |-> r.outcome]
                /\ UNCHANGED <<admission_rule, manual_store>>


\* ------------------------------------------------ common factor evaluator
\* The panels hold floating-point numbers: a Prec-bit mantissa, rounded to the
\* nearest value, ties to the even mantissa. A number is carried as its count
\* of units of 1/FUnit, the spacing of the smallest numbers.
FUnit == 2^FracBits
MaxMantissa == 2^Prec - 1
FlExps == 0..(Prec + FracBits + 3)
\* The exponent of N/D: its mantissa N/(D * 2^e) lies in [2^(Prec-1), 2^Prec).
FlExp(N, D) ==
    CHOOSE e \in FlExps :
        /\ N < 2^(Prec + e) * D
        /\ (e = 0 \/ N >= 2^(Prec + e - 1) * D)
\* N/D (N >= 0, D > 0, in units) rounded to the format.
FlRound(N, D) ==
    LET u == 2^FlExp(N, D)
        den == D * u
        m == N \div den
        r == N % den
    IN  u * (IF 2 * r > den \/ (2 * r = den /\ m % 2 = 1) THEN m + 1 ELSE m)

\* Series.sum(): the values added one after the other, each sum rounded.
RECURSIVE FlSum(_, _)
FlSum(xs, k) == IF k = 0 THEN 0 ELSE FlRound(FlSum(xs, k - 1) + xs[k], 1)
\* The mean std() takes: the rounded sum divided by the count, rounded.
FlMean(xs) == FlRound(FlSum(xs, Len(xs)), Len(xs))
\* Series.std() == 0: the squared deviations from the mean add up to zero,
\* which they do exactly when every value equals the computed mean.
std_is_zero(xs) ==
    LET mean == FlMean(xs)
    IN  \A k \in 1..Len(xs) : xs[k] = mean

\* ---- exact helpers
\* A sequence given by a rule, as the tuple of its elements.
Tuple(xs) == SelectSeq(xs, LAMBDA x : TRUE)
RECURSIVE SumSeq(_, _)
SumSeq(xs, k) == IF k = 0 THEN 0 ELSE SumSeq(xs, k - 1) + xs[k]
Total(xs) == SumSeq(xs, Len(xs))
Sgn(x) == IF x > 0 THEN 1 ELSE IF x < 0 THEN 0 - 1 ELSE 0
Mag(x) == IF x < 0 THEN 0 - x ELSE x
MaxOf(S) == CHOOSE x \in S : \A y \in S : y <= x
MinOf(S) == CHOOSE x \in S : \A y \in S : x <= y
\* Len(xs) times the deviation of each value from the exact mean.
Centered(xs) ==
    LET S == Total(xs)
    IN  Tuple([k \in 1..Len(xs) |-> Len(xs) * xs[k] - S])
Dot(xs, ys) == Total(Tuple([k \in 1..Len(xs) |-> xs[k] * ys[k]]))
AllEqual(xs) == \A k \in 1..Len(xs) : xs[k] = xs[1]
\* a / b towards zero, and a / b upwards (a >= 0), for b > 0.
Trunc(a, b) == Sgn(a) * (Mag(a) \div b)
Ceil(a, b) == (a + b - 1) \div b

\* cov / sqrt(vx * vy), a correlation, to the nearest grid step.
GridCorr(cov, vx, vy) ==
    Sgn(cov) * MaxOf({j \in 0..Grid :
                        j = 0 \/ (2*j - 1) * (2*j - 1) * vx * vy <= 4 * Grid * Grid * cov * cov})

\* Series.corr(other): np.corrcoef of the two columns. Its value is taken
\* from the exact deviations; a column that is constant but got past the
\* std() test has only the rounding residue of its mean as deviation, the
\* same for every row.
Pearson(xs, ys) ==
    LET dx == Centered(xs)
        dy == Centered(ys)
        vx == Dot(dx, dx)
        vy == Dot(dy, dy)
    IN  IF vx = 0 /\ vy = 0
        THEN Num(Grid * Sgn(xs[1] - FlMean(xs)) * Sgn(ys[1] - FlMean(ys)))
        ELSE IF vx = 0 \/ vy = 0
        THEN Num(0)
        ELSE Num(GridCorr(Dot(dx, dy), vx, vy))

\* Twice the average rank of each value.
Rank2(xs) ==
    Tuple([k \in 1..Len(xs) |->
        2 * Cardinality({j \in 1..Len(xs) : xs[j] < xs[k]})
          + Cardinality({j \in 1..Len(xs) : xs[j] = xs[k]}) + 1])
\* The covariance and the two variances of the average ranks, each times a
\* common factor; the rank correlation is cov / sqrt(vx * vy).
SpearmanParts(xs, ys) ==
    LET dx == Centered(Rank2(xs))
        dy == Centered(Rank2(ys))
    IN  [cov |-> Dot(dx, dy), vx |-> Dot(dx, dx), vy |-> Dot(dy, dy)]
\* spearmanr: undefined for a constant input, else the correlation of ranks.
Spearman(xs, ys) ==
    IF AllEqual(xs) \/ AllEqual(ys)
    THEN NaN
    ELSE LET p == SpearmanParts(xs, ys)
         IN  Num(GridCorr(p.cov, p.vx, p.vy))

\* calc_ics(g) on the factor and return columns of one date.
calc_ics(fs, rs) ==
    IF Len(fs) < 2 \/ std_is_zero(fs) \/ std_is_zero(rs)
    THEN [ic |-> NaN, rank_ic |-> NaN]
    ELSE [ic |-> Pearson(fs, rs), rank_ic |-> Spearman(fs, rs)]

\* The std <= 1e-8 of calc_stats, in grid steps.
StdEps == 0
\* A ratio is kept up to this many grid steps: above every threshold.
IrCap == Grid + 1
\* The whole part of the square root of m.
ISqrt(m) == CHOOSE k \in 0..m : k * k <= m /\ m < (k + 1) * (k + 1)

calc_stats_single(series) ==
    LET ds == SortedInts(DOMAIN series)
        xs == Tuple([k \in 1..Len(ds) |-> series[ds[k]]])
        n == Len(xs)
        S == Total(xs)
        dev == Centered(xs)
        Q == Dot(dev, dev)
        mean == Num(Trunc(S, n))
        std == Num(ISqrt(Q \div (n * n * (n - 1))))
    IN  IF n < 1
        THEN [mean |-> NaN, std |-> NaN, ir |-> NaN, t |-> NaN]
        ELSE IF n = 1
        THEN [mean |-> mean, std |-> NaN, ir |-> NaN, t |-> NaN]
        ELSE IF Q <= StdEps
        THEN [mean |-> mean, std |-> std, ir |-> NaN, t |-> NaN]
        ELSE [mean |-> mean, std |-> std,
              ir |-> Num(Sgn(S) * MaxOf({k \in 0..IrCap :
                                           k * k * Q <= S * S * (n - 1) * Grid * Grid})),
              t |-> Num(Sgn(S) * MaxOf({k \in 0..IrCap :
                                          k * k * Q <= S * S * n * (n - 1) * Grid * Grid}))]

\* calc_stats(series) for a series given as date -> value: mean, sample
\* standard deviation, ir = mean / std and t = mean / (std / sqrt(n)). Mean
\* and std are cut to whole units of the values; ir and t are kept as the
\* largest grid value their size reaches, which is what abs(x) >= threshold
\* reads of them.
calc_stats(series) ==
    LET ds == SortedInts(DOMAIN series)
        xs == Tuple([k \in 1..Len(ds) |-> series[ds[k]]])
        n == Len(xs)
        S == Total(xs)
        dev == Centered(xs)
        Q == Dot(dev, dev)
        mean == Num(Trunc(S, n))
        std == Num(ISqrt(Q \div (n * n * (n - 1))))
    IN  IF n < 2
        THEN [mean |-> NaN, std |-> NaN, ir |-> NaN, t |-> NaN]
        ELSE IF Q <= StdEps
        THEN [mean |-> mean, std |-> std, ir |-> NaN, t |-> NaN]
        ELSE [mean |-> mean, std |-> std,
              ir |-> Num(Sgn(S) * MaxOf({k \in 0..IrCap :
                                           k * k * Q <= S * S * (n - 1) * Grid * Grid})),
              t |-> Num(Sgn(S) * MaxOf({k \in 0..IrCap :
                                          k * k * Q <= S * S * n * (n - 1) * Grid * Grid}))]

\* ---- group returns
\* The k-th smallest of xs.
Kth(xs, k) ==
    CHOOSE v \in SeqRange(xs) :
        /\ Cardinality({j \in 1..Len(xs) : xs[j] < v}) < k
        /\ Cardinality({j \in 1..Len(xs) : xs[j] <= v}) >= k
\* q times the j/q quantile of xs, by linear interpolation.
EdgeQ(xs, j, q) ==
    LET pos == (Len(xs) - 1) * j
        f == pos \div q
        rem == pos % q
    IN  Kth(xs, f + 1) * q
          + (IF rem = 0 THEN 0 ELSE rem * (Kth(xs, f + 2) - Kth(xs, f + 1)))
\* pd.qcut(xs, q, labels=False, duplicates="drop"): <<label>> per row, <<>>
\* for a row that falls in no bin.
qcut(xs, q) ==
    LET bins == {EdgeQ(xs, j, q) : j \in 0..q}
    IN  [k \in 1..Len(xs) |->
            IF Cardinality(bins) < 2 THEN <<>>
            ELSE IF xs[k] * q = MinOf(bins) THEN <<0>>
            ELSE <<Cardinality({b \in bins : b < xs[k] * q}) - 1>>]
\* get_group_ret(g, q_bins): label -> the sum and count of its returns.
get_group_ret(fs, rs, q) ==
    IF Len(fs) < q
    THEN <<>>
    ELSE LET labels == qcut(fs, q)
             present == {labels[k][1] : k \in {j \in 1..Len(fs) : labels[j] # <<>>}}
         IN  [l \in present |->
                LET rows == {k \in 1..Len(fs) : labels[k] = <<l>>}
                IN  [sum |-> Total(Tuple([k \in 1..Len(rs) |-> IF k \in rows THEN rs[k] ELSE 0])),
                     cnt |-> Cardinality(rows)]]

\* The assets of an evaluated panel, in index order.
EvCodes == <<"A", "B", "C">>
NCodes == Len(EvCodes)
RECURSIVE Factorial(_)
Factorial(n) == IF n = 0 THEN 1 ELSE n * Factorial(n - 1)
\* A common denominator for means over up to NCodes rows.
CntScale == Factorial(NCodes)

\* _mono_one_day(row): the rank correlation of group number and group return.
mono_one_day(row) ==
    LET ls == SortedInts(DOMAIN row)
        means == Tuple([k \in 1..Len(ls) |-> row[ls[k]].sum * (CntScale \div row[ls[k]].cnt)])
    IN  IF Len(ls) < 2 THEN NaN ELSE Spearman(ls, means)

\* ---- top turnover
\* top_pct = 0.2
TopPct == [num |-> 1, den |-> 5]
\* _get_top_codes_safe(g): the rows of the n largest factor values, the
\* earlier row first among equals.
get_top_codes(codes, fs) ==
    LET n == MaxOf({1, Ceil(Len(fs) * TopPct.num, TopPct.den)})
    IN  {codes[k] : k \in {k \in 1..Len(fs) :
            Cardinality({j \in 1..Len(fs) :
                fs[j] > fs[k] \/ (fs[j] = fs[k] /\ j < k)}) < n}}

\* ---- CommonFactorEvaluator.evaluate
\* The dates of a panel, in index order.
EvDates == 1..MaxEvalDates
\* A series given as date -> value, as the sequence of its values by date.
SeriesSeq(series) ==
    LET ds == SortedInts(DOMAIN series)
    IN  Tuple([k \in 1..Len(ds) |-> series[ds[k]]])
\* The rows of date d left by the index intersection and the valid mask.
ValidRows(factor, ret, d) ==
    SelectSeq([k \in 1..NCodes |-> k], LAMBDA k : ~factor[d][k].nan /\ ~ret[d][k].nan)
Amortised_undivided(r, h) == r

\* ret / horizon, taken only when horizon > 1.
Amortised(r, h) == IF h > 1 THEN FlRound(r, h) ELSE r

empty_result_nan_metrics(msg) ==
    [metrics |-> [ic_mean |-> NaN, rank_ic_mean |-> NaN], artifacts |-> <<>>,
     notes |-> [warning |-> msg], horizon |-> 1]

\* _empty_result(factor_name, msg)
empty_result(msg) ==
    [metrics |-> <<>>, artifacts |-> <<>>, notes |-> [warning |-> msg], horizon |-> 1]

turnover_vals_first_zero(days, top) ==
    [d \in days |->
        LET cur_set == top[d]
        IN  IF cur_set = {} THEN NaN
            ELSE IF d = MinOf(days) THEN Num(0)
            ELSE Num((Cardinality(cur_set)
                        - Cardinality(cur_set \cap top[MaxOf({e \in days : e < d})]))
                     * (CntScale \div Cardinality(cur_set)))]

\* turnover_vals over the dates of top_sets: undefined on the first date and
\* for an empty set, else 1 - overlap / len(cur_set), in units of 1/CntScale.
turnover_vals(days, top) ==
    [d \in days |->
        LET cur_set == top[d]
        IN  IF d = MinOf(days) \/ cur_set = {} THEN NaN
            ELSE Num((Cardinality(cur_set)
                        - Cardinality(cur_set \cap top[MaxOf({e \in days : e < d})]))
                     * (CntScale \div Cardinality(cur_set)))]

\* The defined values of a series of cells, by date.
Defined(series) == [d \in {e \in DOMAIN series : ~series[e].nan} |-> series[d].v]

\* group_ret_by_day: the rows the dates produced; a table that is not empty
\* gets the columns 0..q-1.
group_table(rows, q) ==
    [columns |-> IF DOMAIN rows = {} THEN {} ELSE 0..(q - 1), rows |-> rows]

\* The groups of groupby(level="date") and what is computed of each: the
\* correlations, the group returns and the top bucket. codes holds the valid
\* rows of each date.
date_groups(factor, ret, codes, q, long_high, h) ==
    Tuple([d \in EvDates |->
        LET fs == Tuple([k \in 1..Len(codes[d]) |-> factor[d][codes[d][k]].v])
            rs == Tuple([k \in 1..Len(codes[d]) |-> Amortised(ret[d][codes[d][k]].v, h)])
            gs == Tuple([k \in 1..Len(codes[d]) |-> IF long_high THEN fs[k] ELSE 0 - fs[k]])
        IN  IF codes[d] = <<>>
            THEN [valid |-> FALSE, ics |-> [ic |-> NaN, rank_ic |-> NaN],
                  group_ret |-> <<>>, top |-> {}]
            ELSE [valid |-> TRUE, ics |-> calc_ics(fs, rs),
                  group_ret |-> get_group_ret(gs, rs, q),
                  top |-> get_top_codes(codes[d], gs)]])

\* The top column minus the bottom column of the table, times CntScale.
long_short(table) ==
    [d \in DOMAIN table.rows |->
        IF {MaxOf(table.columns), MinOf(table.columns)} \subseteq DOMAIN table.rows[d]
        THEN LET hi == table.rows[d][MaxOf(table.columns)]
                 lo == table.rows[d][MinOf(table.columns)]
             IN  Num(hi.sum * (CntScale \div hi.cnt) - lo.sum * (CntScale \div lo.cnt))
        ELSE NaN]

\* Steps 2 to 5 of evaluate: the series, their statistics and the result.
summary(day, days, group_ret_by_day, ls_series, turnover_series, h) ==
    LET ic_series == [d \in {e \in days : ~day[e].ics.ic.nan} |-> day[d].ics.ic.v]
        rank_ic_series ==
            [d \in {e \in days : ~day[e].ics.rank_ic.nan} |-> day[d].ics.rank_ic.v]
        ic == calc_stats(ic_series)
        rank_ic == calc_stats(rank_ic_series)
        ls == IF DOMAIN ls_series # {} THEN calc_stats(Defined(ls_series))
              ELSE [mean |-> NaN, std |-> NaN, ir |-> NaN, t |-> NaN]
        mono == Tuple([d \in EvDates |->
                  IF d \in DOMAIN group_ret_by_day.rows
                  THEN mono_one_day(day[d].group_ret) ELSE NaN])
        monotonic_series ==
            SeriesSeq([d \in {e \in DOMAIN group_ret_by_day.rows : ~mono[e].nan} |-> mono[d].v])
        monotonic_mean ==
            IF monotonic_series = <<>> THEN NaN
            ELSE Num(Trunc(Total(monotonic_series), Len(monotonic_series)))
        turnover == SeriesSeq(Defined(turnover_series))
        top_turnover_mean ==
            IF turnover = <<>> THEN NaN
            ELSE Num(Ceil(Total(turnover) * Grid, Len(turnover) * CntScale))
    IN  [metrics |-> [ic_mean |-> ic.mean, ic_std |-> ic.std,
                      ic_ir |-> ic.ir, ic_t |-> ic.t,
                      rank_ic_mean |-> rank_ic.mean, rank_ic_std |-> rank_ic.std,
                      rank_ic_ir |-> rank_ic.ir, rank_ic_t |-> rank_ic.t,
                      top_turnover_20_mean |-> top_turnover_mean,
                      monotonic_mean |-> monotonic_mean,
                      group_ls_mean |-> ls.mean, group_ls_t |-> ls.t],
         artifacts |-> [ic_series |-> ic_series,
                        rank_ic_series |-> rank_ic_series,
                        group_ret_by_day |-> group_ret_by_day,
                        ls_series |-> ls_series,
                        top_turnover_series |-> turnover_series],
         notes |-> <<>>,
         horizon |-> h]

\* evaluate from the per-date results on: the table of group returns, the
\* long-short series and the turnover series, then the summary.
evaluate_days(day, days, q, h) ==
    LET group_ret_by_day ==
            group_table([d \in {e \in days : DOMAIN day[e].group_ret # {}} |->
                            day[d].group_ret], q)
    IN  summary(day, days, group_ret_by_day, long_short(group_ret_by_day),
                turnover_vals(days, [d \in days |-> day[d].top]), h)

\* evaluate(factor, ret, q, top_pct, long_high, horizon=h). The panels map a
\* date to its row of cells, in units of 1/FUnit; a date ret does not list is
\* absent from its index.
evaluate(factor, ret, q, long_high, h) ==
    LET common == DOMAIN factor \cap DOMAIN ret
        codes == Tuple([d \in EvDates |->
                          IF d \in common THEN ValidRows(factor, ret, d) ELSE <<>>])
    IN  IF common = {} THEN empty_result("empty intersection")
        ELSE IF \A d \in EvDates : codes[d] = <<>> THEN empty_result("empty after dropna")
        ELSE evaluate_days(date_groups(factor, ret, codes, q, long_high, h),
                           {d \in EvDates : codes[d] # <<>>}, q, h)

\* ---- inputs of the evaluator specification
\* Two neighbouring factor values of the top binade.
FactorVals == {(MaxMantissa - 1) * FUnit, MaxMantissa * FUnit}
\* A date's factor values: the first two assets have one, the third has none
\* or repeats the second's.
FactorRows ==
    {row \in [1..NCodes -> {NaN} \cup {Num(v) : v \in FactorVals}] :
        ~row[1].nan /\ ~row[2].nan /\ (row[3].nan \/ row[3] = row[2])}
\* A date of distinct returns, one of equal returns, one without returns.
RetRows ==
    {<<Num(FUnit), Num(2 * FUnit), Num(3 * FUnit)>>,
     <<Num(2 * FUnit), Num(2 * FUnit), Num(2 * FUnit)>>,
     <<NaN, NaN, NaN>>}
FactorPanels == [EvDates -> FactorRows]
\* Returns on the factor's dates, or on none of them.
RetPanels == [EvDates -> RetRows] \cup {<<>>}
\* evaluate's default q
DefaultQ == 10
Qs == {SmallQ, DefaultQ}

NotEvaluated == [called |-> FALSE]
EvIdle == eval_call = NotEvaluated
EvInit == eval_call = NotEvaluated

\* One call of CommonFactorEvaluator.evaluate.
Evaluate ==
    /\ ~eval_call.called
    /\ \E factor \in FactorPanels, ret \in RetPanels, q \in Qs, h \in Horizons :
          eval_call' = [called |-> TRUE, via |-> "evaluate", factor |-> factor,
                        ret |-> ret, q |-> q, horizon |-> h,
                        result |-> evaluate(factor, ret, q, TRUE, h)]

\* The caller is done with the result.
Discard ==
    /\ eval_call.called
    /\ eval_call' = NotEvaluated

\* ------------------------------------------------------ evaluator engine
\* A series is a function from its index entries to cells; a cell is NaN or
\* a number.
\* pd.DataFrame({"factor": factor, "ret": ret}): a row for every entry of
\* either index, a cell missing where its series has no such entry.
OuterFrame(factor, ret) ==
    [k \in (DOMAIN factor) \cup (DOMAIN ret) |->
        [factor |-> IF k \in DOMAIN factor THEN factor[k] ELSE NaN,
         ret |-> IF k \in DOMAIN ret THEN ret[k] ELSE NaN]]
\* DataFrame.dropna(): the rows without a missing cell.
dropna(frame) ==
    [k \in {j \in DOMAIN frame : ~frame[j].factor.nan /\ ~frame[j].ret.nan} |-> frame[k]]

align_outer(factor, ret) == OuterFrame(factor, ret)

\* EvaluatorEngine.align(factor, ret)
align(factor, ret) == dropna(OuterFrame(factor, ret))

\* A panel as the series it is: an entry (date, asset) for every cell.
SeriesOf(panel) ==
    [key \in (DOMAIN panel) \X (1..NCodes) |-> panel[key[1]][key[2]]]
\* A series over entries (date, asset) as a panel: the dates it has an entry
\* of, each with a missing cell for an asset it has no entry of.
PanelOf(series) ==
    [d \in {key[1] : key \in DOMAIN series} |->
        [k \in 1..NCodes |-> IF <<d, k>> \in DOMAIN series THEN series[<<d, k>>] ELSE NaN]]
\* tmp["factor"], tmp["ret"]
FactorColumn(frame) == [k \in DOMAIN frame |-> frame[k].factor]
RetColumn(frame) == [k \in DOMAIN frame |-> frame[k].ret]

\* An Optional[str]: <<>> for None, <<s>> for the string s.
\* f_name of CommonFactorEvaluator.evaluate: the name of the series it is
\* given, "factor" when that has none.
f_name(name) == IF name # <<>> THEN name ELSE <<"factor">>
\* evaluator.evaluate(factor, ret, q=q, horizon=h) of the two evaluators
\* evaluate_one is called with: "common_eval", the registered common
\* evaluator got by name, and "plain", a given evaluator whose function
\* computes the same figures and builds an EvalResult without a
\* factor_name, which then holds the dataclass default None.
evaluator_evaluate(evaluator, name, factor, ret, q, h) ==
    [factor_name |-> IF evaluator = "common_eval" THEN f_name(name) ELSE <<>>]
        @@ evaluate(factor, ret, q, TRUE, h)

fill_factor_name_always(res, name) == [res EXCEPT !.factor_name = name]

\* "if res.factor_name is None: res.factor_name = factor.name"
fill_factor_name(res, name) ==
    IF res.factor_name = <<>> THEN [res EXCEPT !.factor_name = name] ELSE res

\* EvaluatorEngine.evaluate_one(factor, ret, evaluator, q=q, horizon=h) on a
\* factor series called name: the series are aligned, the columns "factor"
\* and "ret" of the frame are handed to the evaluator, and the result's
\* factor_name is filled in.
evaluate_one(name, factor, ret, evaluator, q, h) ==
    LET tmp == align(factor, ret)
    IN  fill_factor_name(
            evaluator_evaluate(evaluator, <<"factor">>, PanelOf(FactorColumn(tmp)),
                               PanelOf(RetColumn(tmp)), q, h),
            name)

\* The names of the factor series and the evaluators evaluate_one is called
\* with.
SeriesNames == {<<>>, <<"alpha">>}
EvaluatorLikes == {"common_eval", "plain"}

\* One call of EvaluatorEngine.evaluate_one on the series of two panels, with
\* q overridden and the horizon left at its default.
EvaluateOne ==
    /\ ~eval_call.called
    /\ \E factor \in FactorPanels, ret \in RetPanels, name \in SeriesNames,
          evaluator \in EvaluatorLikes :
          eval_call' = [called |-> TRUE, via |-> "evaluate_one", factor |-> factor,
                        ret |-> ret, q |-> SmallQ, horizon |-> 1,
                        name |-> name, evaluator |-> evaluator,
                        result |-> evaluate_one(name, SeriesOf(factor), SeriesOf(ret),
                                                evaluator, SmallQ, 1)]

\* ---- evaluate_all and evaluate_factors
\* What ev.evaluate(factor, ret, **params) of the common evaluator is called
\* with: the two aligned columns and the horizon among params, 1 when params
\* has none (evaluate's default). The EvalResult is computed from these and
\* carries this horizon.
EvalCall(factor, ret, params) ==
    [factor |-> factor, ret |-> ret,
     horizon |-> IF "horizon" \in DOMAIN params THEN params.horizon ELSE 1]
\* ev.default_params of the common evaluator: q, top_pct and long_high.
DefaultParams == [q |-> DefaultQ, top_pct |-> TopPct, long_high |-> TRUE]
\* evaluate_all(factor, ret) over the registered evaluators, no parameter
\* overridden: evaluator name -> result.
evaluate_all(factor, ret) ==
    LET tmp == align(factor, ret)
    IN  [n \in {BuiltinEvaluator.name} |->
            EvalCall(FactorColumn(tmp), RetColumn(tmp), DefaultParams)]
\* A factor column on the panel's index; every value is its own.
FactorOn(panel) == [key \in panel.index |-> Num(PriceAt("close", key[1], key[2]))]
\* evaluate_factors(df, factor_df, horizons, price_col, kind) for one factor
\* column: how the call ends and results[fname], horizon -> evaluate_all's
\* result.
evaluate_factors(panel, horizons, price_col, kind) ==
    LET ret_df == build_forward_returns(panel, horizons, price_col, kind)
    IN  IF ret_df.outcome # "ok"
        THEN [outcome |-> ret_df.outcome, results |-> <<>>]
        ELSE [outcome |-> "ok",
              results |-> [h \in SeqRange(horizons) |->
                             evaluate_all(FactorOn(panel), ret_df.out[h])]]

FacInit ==
    /\ df \in Panels
    /\ fwd = NotCalled

\* One call of EvaluatorEngine.evaluate_factors on the panel.
EvaluateFactors ==
    /\ ~fac_call.called
    /\ \E hs \in HorizonLists, pc \in Columns, k \in Kinds :
          LET r == evaluate_factors(df, hs, pc, k)
          IN  fac_call' = [called |-> TRUE, horizons |-> hs, price_col |-> pc,
                           kind |-> k, outcome |-> r.outcome, results |-> r.results]
    /\ UNCHANGED <<df, fwd, aligned>>

\* ---- inputs of the alignment specification
AlignKeys == 1..MaxKeys
AlignCells == {NaN, Num(1), Num(2)}
AlignSeries == UNION {[I -> AlignCells] : I \in SUBSET AlignKeys}

NotAligned == [called |-> FALSE]
EngIdle ==
    /\ aligned = NotAligned
    /\ fac_call = [called |-> FALSE]
KerIdle ==
    /\ kernel = [called |-> FALSE]
    /\ pending = {}
    /\ ic_array = <<>>
    /\ group_returns = <<>>

\* One call of EvaluatorEngine.align.
Align ==
    /\ ~aligned.called
    /\ \E factor \in AlignSeries, ret \in AlignSeries :
          aligned' = [called |-> TRUE, factor |-> factor, ret |-> ret,
                      out |-> align(factor, ret)]
    /\ UNCHANGED fac_call

\* ---------------------------------------------------- accelerated kernel
\* A slot of ic_array: NaN, or the correlation cov / sqrt(vx * vy) by its
\* parts.
KNaN == [nan |-> TRUE, cov |-> 0, vx |-> 0, vy |-> 0]
\* A slot of group_returns: NaN, or a mean by its sum and count.
GNaN == [nan |-> TRUE, sum |-> 0, cnt |-> 0]
\* How argsort orders equal values: np.argsort's default sort is not stable,
\* so the build decides; the earlier element first, or the later one first.
SortPolicies == {"first", "last"}
\* np.argsort(np.argsort(xs)): the position of each element in sorted order,
\* from 0.
ArgRank(xs, policy) ==
    Tuple([k \in 1..Len(xs) |->
        Cardinality({j \in 1..Len(xs) : xs[j] < xs[k]})
          + Cardinality({j \in 1..Len(xs) :
                xs[j] = xs[k] /\ (IF policy = "first" THEN j < k ELSE j > k)})])

\* The body of compute_rank_ic_by_date's loop on the valid rows of one date:
\* the value for the date's slot, NaN when the iteration ends in "continue".
rank_ic_of_date(fs, rs, policy) ==
    IF Len(fs) < 2 \/ std_is_zero(fs) \/ std_is_zero(rs)
    THEN KNaN
    ELSE LET dx == Centered(ArgRank(fs, policy))
             dy == Centered(ArgRank(rs, policy))
             vx == Dot(dx, dx)
             vy == Dot(dy, dy)
         IN  IF vx * vy > 0
             THEN [nan |-> FALSE, cov |-> Dot(dx, dy), vx |-> vx, vy |-> vy]
             ELSE KNaN

\* The valid factor values and returns of date d.
KernelFactors(factor, ret, d) ==
    LET rows == ValidRows(factor, ret, d)
    IN  Tuple([k \in 1..Len(rows) |-> factor[d][rows[k]].v])
KernelReturns(factor, ret, d) ==
    LET rows == ValidRows(factor, ret, d)
    IN  Tuple([k \in 1..Len(rows) |-> ret[d][rows[k]].v])

rank_ic_iteration_carry(ic, factor, ret, d, policy) ==
    LET v == rank_ic_of_date(KernelFactors(factor, ret, d), KernelReturns(factor, ret, d),
                             policy)
    IN  IF ~v.nan THEN [ic EXCEPT ![d] = v]
        ELSE IF d > 1 THEN [ic EXCEPT ![d] = ic[d - 1]]
        ELSE ic

\* One iteration of "for date_idx in prange(n_dates)" of
\* compute_rank_ic_by_date: ic_array after it.
rank_ic_iteration(ic, factor, ret, d, policy) ==
    LET v == rank_ic_of_date(KernelFactors(factor, ret, d), KernelReturns(factor, ret, d),
                             policy)
    IN  IF v.nan THEN ic ELSE [ic EXCEPT ![d] = v]

compute_quantile_labels_late_extra(xs, q, policy) ==
    LET n == Len(xs)
        base_size == n \div q
        remainder == n % q
        start(j) == j * base_size + (IF j > q - remainder THEN j - (q - remainder) ELSE 0)
        pos == ArgRank(xs, policy)
    IN  Tuple([k \in 1..n |->
            CHOOSE j \in 0..(q - 1) : start(j) <= pos[k] /\ pos[k] < start(j + 1)])

\* compute_quantile_labels(values, n_quantiles): the label of each element.
compute_quantile_labels(xs, q, policy) ==
    LET n == Len(xs)
        base_size == n \div q
        remainder == n % q
        start(j) == j * base_size + (IF j < remainder THEN j ELSE remainder)
        pos == ArgRank(xs, policy)
    IN  Tuple([k \in 1..n |->
            CHOOSE j \in 0..(q - 1) : start(j) <= pos[k] /\ pos[k] < start(j + 1)])

group_return_of_date_unchecked(fs, rs, q, policy) ==
    LET labels == compute_quantile_labels(fs, q, policy)
    IN  [l \in 0..(q - 1) |->
            LET rows == {k \in 1..Len(fs) : labels[k] = l}
            IN  IF rows = {} THEN GNaN
                ELSE [nan |-> FALSE,
                      sum |-> Total(Tuple([k \in 1..Len(rs) |->
                                              IF k \in rows THEN rs[k] ELSE 0])),
                      cnt |-> Cardinality(rows)]]

\* The body of compute_group_return_by_date's loop on the valid rows of one
\* date: the date's row of the table, bin -> mean return.
group_return_of_date(fs, rs, q, policy) ==
    IF Len(fs) < q
    THEN [l \in 0..(q - 1) |-> GNaN]
    ELSE LET labels == compute_quantile_labels(fs, q, policy)
         IN  [l \in 0..(q - 1) |->
                LET rows == {k \in 1..Len(fs) : labels[k] = l}
                IN  IF rows = {} THEN GNaN
                    ELSE [nan |-> FALSE,
                          sum |-> Total(Tuple([k \in 1..Len(rs) |->
                                                  IF k \in rows THEN rs[k] ELSE 0])),
                          cnt |-> Cardinality(rows)]]

\* One iteration of "for date_idx in prange(n_dates)" of
\* compute_group_return_by_date: group_returns after it.
group_ret_iteration(table, factor, ret, d, q, policy) ==
    [table EXCEPT ![d] =
        group_return_of_date(KernelFactors(factor, ret, d), KernelReturns(factor, ret, d),
                             q, policy)]

\* np.full(n_dates, np.nan) and np.full((n_dates, n_quantiles), np.nan)
EmptyIcArray == [d \in EvDates |-> KNaN]
EmptyGroupReturns(q) == [d \in EvDates |-> [l \in 0..(q - 1) |-> GNaN]]

\* The loops run in date order, as range in place of prange runs them.
RECURSIVE RankIcLoop(_, _, _, _, _)
RankIcLoop(ic, factor, ret, policy, d) ==
    IF d > MaxEvalDates THEN ic
    ELSE RankIcLoop(rank_ic_iteration(ic, factor, ret, d, policy), factor, ret, policy, d + 1)
compute_rank_ic_by_date(factor, ret, policy) ==
    RankIcLoop(EmptyIcArray, factor, ret, policy, 1)
RECURSIVE GroupRetLoop(_, _, _, _, _, _)
GroupRetLoop(table, factor, ret, q, policy, d) ==
    IF d > MaxEvalDates THEN table
    ELSE GroupRetLoop(group_ret_iteration(table, factor, ret, d, q, policy),
                      factor, ret, q, policy, d + 1)
compute_group_return_by_date(factor, ret, q, policy) ==
    GroupRetLoop(EmptyGroupReturns(q), factor, ret, q, policy, 1)

\* ---- inputs of the kernel specification
\* A date of distinct factor values, two with equal values, one with a
\* missing value.
KernelFactorRows ==
    {<<Num(FUnit), Num(2 * FUnit), Num(3 * FUnit)>>,
     <<Num(2 * FUnit), Num(FUnit), Num(FUnit)>>,
     <<Num(FUnit), Num(FUnit), Num(2 * FUnit)>>,
     <<Num(FUnit), Num(2 * FUnit), NaN>>}
KernelRetRows ==
    RetRows \cup {<<Num(3 * FUnit), Num(FUnit), Num(2 * FUnit)>>,
                  <<NaN, Num(2 * FUnit), NaN>>}
KernelCalls ==
    [called : {TRUE}, fn : {"rank_ic"}, factor : [EvDates -> KernelFactorRows],
     ret : [EvDates -> KernelRetRows], q : {SmallQ}, policy : SortPolicies]
    \cup
    [called : {TRUE}, fn : {"group_ret"}, factor : [EvDates -> KernelFactorRows],
     ret : [EvDates -> KernelRetRows], q : Qs, policy : SortPolicies]

\* A kernel is entered: its output is allocated and no iteration has run.
KerInit ==
    /\ kernel \in KernelCalls
    /\ pending = EvDates
    /\ ic_array = EmptyIcArray
    /\ group_returns = EmptyGroupReturns(kernel.q)

\* Some thread runs one iteration of compute_rank_ic_by_date's loop.
RankIcIteration ==
    /\ kernel.called /\ kernel.fn = "rank_ic"
    /\ \E d \in pending :
          /\ ic_array' = rank_ic_iteration(ic_array, kernel.factor, kernel.ret, d,
                                           kernel.policy)
          /\ pending' = pending \ {d}
    /\ UNCHANGED <<kernel, group_returns>>

\* Some thread runs one iteration of compute_group_return_by_date's loop.
GroupRetIteration ==
    /\ kernel.called /\ kernel.fn = "group_ret"
    /\ \E d \in pending :
          /\ group_returns' = group_ret_iteration(group_returns, kernel.factor, kernel.ret,
                                                  d, kernel.q, kernel.policy)
          /\ pending' = pending \ {d}
    /\ UNCHANGED <<kernel, ic_array>>

\* ------------------------------------------------------------ auto batch
\* list_factors(): the registered factors in registration order.
list_factors == [n \in 1..MaxFactors |-> FactorSpec(n)]

\* _compute_factor_hash: md5 over name, version and the function's code; the
\* digest is modelled by the triple it is computed from.
compute_factor_hash(spec) == <<spec.name, spec.version, spec.func>>
\* A hash recorded before the factor's code was last edited.
StaleHash(n) == <<n, "v1", 0>>

\* AutoFactorProcessor.horizons
ProcHorizons == [k \in 1..MaxH |-> k]

should_process_factor_unless_recorded(force, records, spec) ==
    IF force THEN TRUE
    ELSE IF spec.name \notin DOMAIN records THEN TRUE
    ELSE FALSE

\* _should_process_factor(factor_spec)[0]
should_process_factor(force, records, spec) ==
    IF force THEN TRUE
    ELSE IF spec.name \notin DOMAIN records THEN TRUE
    ELSE IF records[spec.name] # compute_factor_hash(spec) THEN TRUE
    ELSE FALSE

StoreNames(store) == {key[1] : key \in DOMAIN store}

get_auto_factors_auto_only(manual, auto, names_opt) ==
    LET existing_names == StoreNames(auto)
        unstored == SelectSeq(list_factors, LAMBDA f : f.name \notin existing_names)
    IN  IF names_opt # <<>>
        THEN SelectSeq(unstored, LAMBDA f : f.name \in names_opt[1])
        ELSE unstored

\* get_auto_factors(): registered factors in neither store, restricted to
\* factor_names when given.
get_auto_factors(manual, auto, names_opt) ==
    LET existing_names == StoreNames(manual) \cup StoreNames(auto)
        unstored == SelectSeq(list_factors, LAMBDA f : f.name \notin existing_names)
    IN  IF names_opt # <<>>
        THEN SelectSeq(unstored, LAMBDA f : f.name \in names_opt[1])
        ELSE unstored

\* EvaluatorEngine.evaluate_multi_horizons(df, factor, horizons, evaluator):
\* the mappings horizon -> EvalResult it can return, one EvalResult per
\* requested horizon.
BatchMetrics == {EmptyMetrics, StrongMetrics}
evaluate_multi_horizons(f, hs) ==
    {[h \in SeqRange(hs) |-> EvalResult(f, h, mm[h])] : mm \in [SeqRange(hs) -> BatchMetrics]}

\* evaluate_factor(factor_spec): the reports it can return; {} when computing
\* or evaluating raised, which its except clause turns into an empty dict.
evaluate_factor(spec) == {<<>>} \cup evaluate_multi_horizons(spec.name, ProcHorizons)

HashStates ==
    UNION {[N -> {"current", "stale"}] : N \in SUBSET FactorNames}
HashOf(n, tag) == IF tag = "current" THEN compute_factor_hash(FactorSpec(n)) ELSE StaleHash(n)

BatIdle ==
    /\ hash_records = <<>>
    /\ hash_file = <<>>
    /\ force_reprocess = FALSE
    /\ factor_names = <<>>
    /\ phase = "none"
    /\ auto_factors = <<>>
    /\ idx = 0
    /\ results = <<>>

\* AutoFactorProcessor.__init__ on the files an earlier session left: the
\* hash records are loaded from the file, the rule is the library's.
BatInit ==
    /\ admission_rule \in {<<r>> : r \in LibRules}
    /\ manual_store \in StoreStates("manual")
    /\ auto_store \in {st \in StoreStates("auto") : Cardinality(DOMAIN st) <= 1}
    /\ call = NoCall
    /\ \E tags \in HashStates :
          hash_file = [n \in DOMAIN tags |-> HashOf(n, tags[n])]
    /\ hash_records = hash_file
    /\ force_reprocess \in BOOLEAN
    /\ factor_names \in {<<>>} \cup {<<{n}>> : n \in FactorNames}
    /\ phase = "idle"
    /\ auto_factors = <<>>
    /\ idx = 0
    /\ results = <<>>

\* process_all up to its loop: the pending list; an empty one returns {}.
ProcessAllStart ==
    /\ phase = "idle"
    /\ auto_factors' = get_auto_factors(manual_store, auto_store, factor_names)
    /\ phase' = IF auto_factors' = <<>> THEN "done" ELSE "running"
    /\ idx' = 1
    /\ results' = <<>>
    /\ UNCHANGED <<hash_records, hash_file, force_reprocess, factor_names, libVars>>

\* One pass of the loop of process_all over auto_factors[idx]. call keeps
\* what evaluate_factor returned to the pass and how the pass ended.
ProcessFactor ==
    /\ phase = "running"
    /\ idx <= Len(auto_factors)
    /\ LET spec == auto_factors[idx]
       IN  IF ~should_process_factor(force_reprocess, hash_records, spec)
           THEN /\ results' = DictPut(results, spec.name, "None")
                /\ idx' = idx + 1
                /\ UNCHANGED <<phase, hash_records, hash_file, auto_store, call>>
           ELSE \E reports \in evaluate_factor(spec) :
                  IF DOMAIN reports = {}
                  THEN /\ results' = DictPut(results, spec.name, "False")
                       /\ idx' = idx + 1
                       /\ call' = [op |-> "evaluate_factor", spec |-> spec,
                                   reports |-> reports, outcome |-> "False"]
                       /\ UNCHANGED <<phase, hash_records, hash_file, auto_store>>
                  ELSE LET r == try_auto_admit(admission_rule, auto_store, spec, reports)
                       IN  /\ call' = [op |-> "evaluate_factor", spec |-> spec,
                                       reports |-> reports, outcome |-> r.outcome]
                           /\ IF r.outcome \notin {"True", "False"}
                              THEN \* the exception leaves process_all
                                   /\ phase' = "raised"
                                   /\ UNCHANGED <<results, idx, hash_records, hash_file,
                                                  auto_store>>
                              ELSE /\ results' = DictPut(results, spec.name, r.outcome)
                                   /\ auto_store' = r.auto_store
                                   /\ hash_records' =
                                        DictPut(hash_records, spec.name,
                                                compute_factor_hash(spec))
                                   \* _save_hash_records: a failed write is only
                                   \* warned about
                                   /\ hash_file' \in {hash_records', hash_file}
                                   /\ idx' = idx + 1
                                   /\ phase' = phase
    /\ UNCHANGED <<force_reprocess, factor_names, auto_factors,
                   admission_rule, manual_store>>

\* The loop is over: the statistics are printed and results returned.
ProcessAllReturn ==
    /\ phase = "running"
    /\ idx > Len(auto_factors)
    /\ phase' = "done"
    /\ UNCHANGED <<hash_records, hash_file, force_reprocess, factor_names,
                   auto_factors, idx, results, libVars>>

\* A later session: a new AutoFactorProcessor is constructed, which loads the
\* hash records from the file.
Construct ==
    /\ phase \in {"done", "raised"}
    /\ phase' = "idle"
    /\ hash_records' = hash_file
    /\ force_reprocess' \in BOOLEAN
    /\ factor_names' \in {<<>>} \cup {<<{n}>> : n \in FactorNames}
    /\ auto_factors' = <<>>
    /\ idx' = 0
    /\ results' = <<>>
    /\ UNCHANGED <<hash_file, libVars>>

\* --------------------------------------------------------- factor engine
\* A dict as a function on its keys: dict.update(other).
DictUpdate(d, other) ==
    [k \in (DOMAIN d) \cup (DOMAIN other) |-> IF k \in DOMAIN other THEN other[k] ELSE d[k]]
\* The parameters of the registered factors and spec.params, their defaults.
ParamKeys == {"window", "lag"}
spec_params(n) == [k \in ParamKeys |-> 0]

\* The params compute_all calls spec.func with: a copy of spec.params,
\* updated with the factor's entry of per_factor_params, then updated with
\* override_params.
call_params(n, per_factor_params, override_params) ==
    LET params == spec_params(n)
        with_own == IF n \in DOMAIN per_factor_params
                    THEN DictUpdate(params, per_factor_params[n])
                    ELSE params
    IN  DictUpdate(with_own, override_params)

\* FactorEngine.compute_all(df, factors, per_factor_params, **override_params)
\* on a panel that has every required field: a column per factor of specs,
\* each the factor's function applied with its params. factors is <<>> for
\* None, per_factor_params the empty mapping for None.
compute_all(factors, per_factor_params, override_params) ==
    LET specs == IF factors = <<>> THEN [k \in 1..MaxFactors |-> list_factors[k].name]
                 ELSE factors[1]
    IN  [n \in SeqRange(specs) |->
            [func |-> n, params |-> call_params(n, per_factor_params, override_params)]]

\* ---- inputs of the factor engine specification
ParamVals == 1..MaxParam
ParamDicts == UNION {[K -> ParamVals] : K \in SUBSET ParamKeys}
PerFactorParams == UNION {[N -> ParamDicts] : N \in SUBSET FactorNames}
FactorLists == {<<>>} \cup {<<<<n>>>> : n \in FactorNames}

CompIdle == compute_call = [called |-> FALSE]

\* One call of FactorEngine.compute_all.
ComputeAll ==
    /\ ~compute_call.called
    /\ \E factors \in FactorLists, pfp \in PerFactorParams, op \in ParamDicts :
          compute_call' = [called |-> TRUE, factors |-> factors,
                           per_factor_params |-> pfp, override_params |-> op,
                           out |-> compute_all(factors, pfp, op)]

\* ----------------------------------------------------------- factor store
\* A FactorStore over its directory. A string is the sequence of its
\* pieces, "_" being a piece of its own; <<>> is the empty string and
\* stands for None where a version is optional.
\* _get_entry_dir(name, version): base_dir / f"{name}_{version}"
get_entry_dir(name, version) == name \o <<"_">> \o version
\* version or "v1"
VersionOr(version) == IF version = <<>> THEN <<"v1">> ELSE version
\* entry_dir.name.rsplit("_", 1): the parts around the last "_".
rsplit(dirname) ==
    LET at == {k \in 1..Len(dirname) : dirname[k] = "_"}
    IN  IF at = {} THEN <<dirname>>
        ELSE <<SubSeq(dirname, 1, MaxOf(at) - 1), SubSeq(dirname, MaxOf(at) + 1, Len(dirname))>>

\* FactorStore.save_entry(entry): base_dir after it. meta.json gets the
\* entry's fields, func.pkl the function.
FactorStore_save_entry(dir, entry) ==
    LET name == entry.spec.name
        version == VersionOr(entry.spec.version)
    IN  DictPut(dir, get_entry_dir(name, version),
                [meta |-> [name |-> name, version |-> version,
                           source_type |-> entry.source_type,
                           description |-> entry.description,
                           tags |-> entry.tags,
                           last_eval_metrics |-> entry.last_eval_metrics],
                 func |-> entry.spec.func])

\* FactorStore.load_entry(name, version): <<>> for None, else <<entry>>, the
\* entry rebuilt from the files of the directory name_version.
FactorStore_load_entry(dir, name, version) ==
    LET entry_dir == get_entry_dir(name, VersionOr(version))
    IN  IF entry_dir \notin DOMAIN dir THEN <<>>
        ELSE LET meta_data == dir[entry_dir].meta
             IN  <<[spec |-> [name |-> meta_data.name, version |-> meta_data.version,
                              func |-> dir[entry_dir].func],
                    source_type |-> meta_data.source_type,
                    description |-> meta_data.description,
                    tags |-> meta_data.tags,
                    last_eval_metrics |-> meta_data.last_eval_metrics]>>

\* FactorStore.list_entries(): the entries loaded under the name and version
\* parsed from each directory's name; the list in no particular order.
FactorStore_list_entries(dir) ==
    {FactorStore_load_entry(dir, rsplit(d)[1], rsplit(d)[2])[1] :
        d \in {e \in DOMAIN dir :
                 /\ Len(rsplit(e)) = 2
                 /\ FactorStore_load_entry(dir, rsplit(e)[1], rsplit(e)[2]) # <<>>}}

\* FactorStore.delete_entry(name, version): base_dir after it.
FactorStore_delete_entry(dir, name, version) ==
    LET entry_dir == get_entry_dir(name, VersionOr(version))
    IN  [d \in (DOMAIN dir) \ {entry_dir} |-> dir[d]]

\* ---- inputs of the factor store specification
\* Factor names and versions, with and without an underscore.
NameStrings == {<<"a">>, <<"a", "_", "b">>}
VersionStrings == {<<"v1">>, <<"b", "_", "v1">>}
Descriptions == 1..MaxDescr
StoreEntries ==
    {[spec |-> [name |-> n, version |-> v, func |-> n], source_type |-> "manual",
      description |-> d, tags |-> <<>>, last_eval_metrics |-> <<>>] :
        n \in NameStrings, v \in VersionStrings, d \in Descriptions}
NoStoreCall == [op |-> "none"]

StoIdle ==
    /\ base_dir = <<>>
    /\ saved = <<>>
    /\ store_call = NoStoreCall

\* store.save_entry(entry)
SaveEntry ==
    \E entry \in StoreEntries :
        /\ base_dir' = FactorStore_save_entry(base_dir, entry)
        /\ saved' = DictPut(saved, <<entry.spec.name, entry.spec.version>>, entry)
        /\ store_call' = NoStoreCall

\* store.delete_entry(name, version), version left out or given
DeleteEntry ==
    \E name \in NameStrings, version \in VersionStrings \cup {<<>>} :
        /\ base_dir' = FactorStore_delete_entry(base_dir, name, version)
        /\ saved' = [key \in (DOMAIN saved) \ {<<name, VersionOr(version)>>} |-> saved[key]]
        /\ store_call' = NoStoreCall

\* store.load_entry(name, version), version left out or given
LoadEntry ==
    \E name \in NameStrings, version \in VersionStrings \cup {<<>>} :
        /\ store_call' = [op |-> "load_entry", name |-> name, version |-> version,
                          result |-> FactorStore_load_entry(base_dir, name, version)]
        /\ UNCHANGED <<base_dir, saved>>

\* store.list_entries()
ListEntries ==
    /\ store_call' = [op |-> "list_entries", result |-> FactorStore_list_entries(base_dir)]
    /\ UNCHANGED <<base_dir, saved>>

\* ---------------------------------------------------------------- catalog
\* FactorStore.load_entry(name, version) on a store of the library: <<>> for
\* None, else <<entry>>; version is <<>> for None, else <<string>>.
load_entry(store, name, version) ==
    LET key == <<name, IF version = <<>> THEN "v1" ELSE version[1]>>
    IN  IF key \in DOMAIN store THEN <<store[key]>> ELSE <<>>

find_entry_auto_first(manual, auto, name, version) ==
    IF load_entry(auto, name, version) # <<>>
    THEN load_entry(auto, name, version)
    ELSE load_entry(manual, name, version)

\* "self.manual_store.load_entry(name, version) or
\*  self.auto_store.load_entry(name, version)"
find_entry(manual, auto, name, version) ==
    IF load_entry(manual, name, version) # <<>>
    THEN load_entry(manual, name, version)
    ELSE load_entry(auto, name, version)

\* entry.spec
SpecOf(entry) == [name |-> entry.name, version |-> entry.version, func |-> entry.func]

\* FactorLibrary.compute_factor(df, name, version) on a panel that has the
\* factor's fields: ValueError when no entry is found, else what compute_one
\* returns for the entry's spec, the series of that name computed by that
\* function.
compute_factor(manual, auto, name, version) ==
    LET entry == find_entry(manual, auto, name, version)
    IN  IF entry = <<>>
        THEN [outcome |-> "ValueError", value |-> <<>>]
        ELSE [outcome |-> "ok",
              value |-> <<[name |-> SpecOf(entry[1]).name, func |-> SpecOf(entry[1]).func]>>]
\* FactorLibrary.get_factor_spec(name, version)
get_factor_spec(manual, auto, name, version) ==
    LET entry == find_entry(manual, auto, name, version)
    IN  [outcome |-> "ok", value |-> IF entry = <<>> THEN <<>> ELSE <<SpecOf(entry[1])>>]
\* FactorLibrary.get_factor_entry(name, version)
get_factor_entry(manual, auto, name, version) ==
    [outcome |-> "ok", value |-> find_entry(manual, auto, name, version)]

\* The versions a lookup asks for: none given, the stored one, another one.
VersionOpts == {<<>>, <<"v1">>, <<"v2">>}

\* lib.manual_admit(spec) with the default description and tags.
ManualAdmit ==
    \E spec \in FactorSpecs :
        /\ manual_store' = save_entry(manual_store, FactorEntry(spec, "manual", "", <<>>, <<>>))
        /\ call' = [op |-> "manual_admit", name |-> spec.name, version |-> <<spec.version>>,
                    outcome |-> "ok", value |-> <<>>]
        /\ UNCHANGED <<admission_rule, auto_store>>

ComputeFactor ==
    \E name \in FactorNames, version \in VersionOpts :
        LET r == compute_factor(manual_store, auto_store, name, version)
        IN  /\ call' = [op |-> "compute_factor", name |-> name, version |-> version,
                        outcome |-> r.outcome, value |-> r.value]
            /\ UNCHANGED <<admission_rule, manual_store, auto_store>>

GetFactorSpec ==
    \E name \in FactorNames, version \in VersionOpts :
        LET r == get_factor_spec(manual_store, auto_store, name, version)
        IN  /\ call' = [op |-> "get_factor_spec", name |-> name, version |-> version,
                        outcome |-> r.outcome, value |-> r.value]
            /\ UNCHANGED <<admission_rule, manual_store, auto_store>>

GetFactorEntry ==
    \E name \in FactorNames, version \in VersionOpts :
        LET r == get_factor_entry(manual_store, auto_store, name, version)
        IN  /\ call' = [op |-> "get_factor_entry", name |-> name, version |-> version,
                        outcome |-> r.outcome, value |-> r.value]
            /\ UNCHANGED <<admission_rule, manual_store, auto_store>>

\* ------------------------------------------------------- specifications
\* Each specification runs one component; the others stay as constructed.
notAdm == <<evVars, regVars, fwdVars, libVars, batVars, engVars, kerVars, compVars, stoVars>>
notReg == <<evVars, admVars, fwdVars, libVars, batVars, engVars, kerVars, compVars, stoVars>>
notFwd == <<evVars, admVars, regVars, libVars, batVars, engVars, kerVars, compVars, stoVars>>
notLib == <<evVars, admVars, regVars, fwdVars, batVars, engVars, kerVars, compVars, stoVars>>
notBat == <<admVars, regVars, fwdVars, evVars, engVars, kerVars, compVars, stoVars>>
notEv == <<admVars, regVars, fwdVars, libVars, batVars, engVars, kerVars, compVars, stoVars>>

InitAdm == AdmInit /\ RegIdle /\ FwdIdle /\ LibIdle /\ BatIdle /\ EvIdle
    /\ EngIdle /\ KerIdle /\ CompIdle /\ StoIdle
NextAdm ==
    \/ IsPassCall /\ UNCHANGED notAdm
    \/ Tighten /\ UNCHANGED notAdm
SpecAdm == InitAdm /\ [][NextAdm]_vars

InitReg == RegInit /\ AdmIdle /\ FwdIdle /\ LibIdle /\ BatIdle /\ EvIdle
    /\ EngIdle /\ KerIdle /\ CompIdle /\ StoIdle
NextReg ==
    \/ AddEvaluator /\ UNCHANGED notReg
    \/ RegisterEvaluator /\ UNCHANGED notReg
SpecReg == InitReg /\ [][NextReg]_vars

InitFwd == FwdInit /\ AdmIdle /\ RegIdle /\ LibIdle /\ BatIdle /\ EvIdle
    /\ EngIdle /\ KerIdle /\ CompIdle /\ StoIdle
NextFwd == BuildForwardReturns /\ UNCHANGED notFwd
SpecFwd == InitFwd /\ [][NextFwd]_vars

InitLib == LibInit /\ AdmIdle /\ RegIdle /\ FwdIdle /\ BatIdle /\ EvIdle
    /\ EngIdle /\ KerIdle /\ CompIdle /\ StoIdle
NextLib ==
    \/ AutoAdmitFromEval /\ UNCHANGED notLib
    \/ TryAutoAdmit /\ UNCHANGED notLib
SpecLib == InitLib /\ [][NextLib]_vars

InitBat == BatInit /\ AdmIdle /\ RegIdle /\ FwdIdle /\ EvIdle
    /\ EngIdle /\ KerIdle /\ CompIdle /\ StoIdle
NextBat ==
    \/ ProcessAllStart /\ UNCHANGED notBat
    \/ ProcessFactor /\ UNCHANGED notBat
    \/ ProcessAllReturn /\ UNCHANGED notBat
    \/ Construct /\ UNCHANGED notBat
SpecBat == InitBat /\ [][NextBat]_vars

InitEv == EvInit /\ AdmIdle /\ RegIdle /\ FwdIdle /\ LibIdle /\ BatIdle
    /\ EngIdle /\ KerIdle /\ CompIdle /\ StoIdle
NextEv ==
    \/ Evaluate /\ UNCHANGED notEv
    \/ EvaluateOne /\ UNCHANGED notEv
    \/ Discard /\ UNCHANGED notEv
SpecEv == InitEv /\ [][NextEv]_vars

notEng == <<admVars, regVars, fwdVars, libVars, batVars, evVars, kerVars, compVars, stoVars>>
notKer == <<admVars, regVars, fwdVars, libVars, batVars, evVars, engVars, compVars, stoVars>>

InitAlign ==
    /\ EngIdle /\ KerIdle /\ CompIdle /\ StoIdle
    /\ AdmIdle /\ RegIdle /\ FwdIdle /\ LibIdle /\ BatIdle /\ EvIdle
NextAlign == Align /\ UNCHANGED notEng
SpecAlign == InitAlign /\ [][NextAlign]_vars

InitFac ==
    /\ FacInit /\ EngIdle /\ KerIdle /\ CompIdle /\ StoIdle
    /\ AdmIdle /\ RegIdle /\ LibIdle /\ BatIdle /\ EvIdle
NextFac ==
    EvaluateFactors /\ UNCHANGED <<admVars, regVars, libVars, batVars, evVars, kerVars, compVars, stoVars>>
SpecFac == InitFac /\ [][NextFac]_vars

InitKer ==
    /\ KerInit /\ EngIdle /\ CompIdle /\ StoIdle
    /\ AdmIdle /\ RegIdle /\ FwdIdle /\ LibIdle /\ BatIdle /\ EvIdle
NextKer ==
    \/ RankIcIteration /\ UNCHANGED notKer
    \/ GroupRetIteration /\ UNCHANGED notKer
SpecKer == InitKer /\ [][NextKer]_vars

notComp == <<admVars, regVars, fwdVars, libVars, batVars, evVars, engVars, kerVars, stoVars>>
InitComp ==
    /\ CompIdle /\ StoIdle /\ EngIdle /\ KerIdle
    /\ AdmIdle /\ RegIdle /\ FwdIdle /\ LibIdle /\ BatIdle /\ EvIdle
NextComp == ComputeAll /\ UNCHANGED notComp
SpecComp == InitComp /\ [][NextComp]_vars

notSto == <<admVars, regVars, fwdVars, libVars, batVars, evVars, engVars, kerVars, compVars>>
InitSto ==
    /\ StoIdle /\ CompIdle /\ EngIdle /\ KerIdle
    /\ AdmIdle /\ RegIdle /\ FwdIdle /\ LibIdle /\ BatIdle /\ EvIdle
NextSto ==
    \/ SaveEntry /\ UNCHANGED notSto
    \/ DeleteEntry /\ UNCHANGED notSto
    \/ LoadEntry /\ UNCHANGED notSto
    \/ ListEntries /\ UNCHANGED notSto
SpecSto == InitSto /\ [][NextSto]_vars

InitCat == InitLib
NextCat ==
    \/ ManualAdmit /\ UNCHANGED notLib
    \/ ComputeFactor /\ UNCHANGED notLib
    \/ GetFactorSpec /\ UNCHANGED notLib
    \/ GetFactorEntry /\ UNCHANGED notLib
SpecCat == InitCat /\ [][NextCat]_vars

\* ------------------------------------------------------------ claims C3-C5
\* The clauses of the admission gate, written out per case of the mapping:
\* key present with a number, present with NaN, absent (0.0, or 1.0 for the
\* turnover, stands in).
AbsClause(m, k, t) ==
    IF k \in DOMAIN m
    THEN (~m[k].nan) /\ (m[k].v >= t \/ 0 - m[k].v >= t)
    ELSE 0 >= t
TurnoverClause(m, h, t) ==
    IF "top_turnover_20_mean" \in DOMAIN m
    THEN (~m["top_turnover_20_mean"].nan) /\ m["top_turnover_20_mean"].v <= t * h
    ELSE Grid <= t * h
Threshold(r, k) ==
    CASE k = "rank_ic_mean" -> r.min_rank_ic
      [] k = "rank_ic_ir" -> r.min_rank_ic_ir
      [] k = "monotonic_mean" -> r.min_monotonic_mean
      [] k = "top_turnover_20_mean" -> r.max_top_turnover_20_mean
\* Every clause but k's holds.
OthersHold(m, r, h, k) ==
    /\ \A j \in MinKeys \ {k} : AbsClause(m, j, Threshold(r, j))
    /\ (k # "top_turnover_20_mean" => TurnoverClause(m, h, r.max_top_turnover_20_mean))

\* C3: is_pass returns True exactly when |rank_ic_mean| >= min_rank_ic,
\* |rank_ic_ir| >= min_rank_ic_ir, top_turnover_20_mean / horizon <=
\* max_top_turnover_20_mean and |monotonic_mean| >= min_monotonic_mean all
\* hold, and a call changes neither the metrics mapping nor the rule.
C3_FourClauses ==
    /\ [](passed # "unknown" =>
            ((passed = "True") <=>
                /\ AbsClause(metrics, "rank_ic_mean", rule.min_rank_ic)
                /\ AbsClause(metrics, "rank_ic_ir", rule.min_rank_ic_ir)
                /\ TurnoverClause(metrics, horizon, rule.max_top_turnover_20_mean)
                /\ AbsClause(metrics, "monotonic_mean", rule.min_monotonic_mean)))
    /\ [][(passed = "unknown" /\ passed' # "unknown") =>
            (metrics' = metrics /\ rule' = rule)]_vars
C3_Witness ==
    /\ passed = "True"
    /\ DOMAIN metrics = MetricKeys
    /\ metrics["rank_ic_mean"].v < 0
    /\ metrics["top_turnover_20_mean"].v > 0
    /\ rule.min_rank_ic > 0
    /\ horizon > 1

\* C4 as claimed: under every rule and horizon >= 1 a metric missing from the
\* mapping fails its own clause, so a mapping that lacks a metric (the empty
\* one above all) is rejected.
C4_MissingAlwaysFails ==
    (passed # "unknown" /\ DOMAIN metrics # MetricKeys) => passed = "False"

\* C4 amended: a missing rank_ic_mean, rank_ic_ir or monotonic_mean (default
\* 0.0) is rejected when its threshold is positive; a missing turnover
\* (default 1.0) is rejected when 1.0 / horizon > max_top_turnover_20_mean;
\* in every other case the missing metric passes its clause, and the mapping
\* is admitted when the other clauses hold.
C4_MissingDefaults ==
    passed # "unknown" =>
        /\ \A k \in MinKeys \ DOMAIN metrics :
              /\ Threshold(rule, k) > 0 => passed = "False"
              /\ (Threshold(rule, k) <= 0 /\ OthersHold(metrics, rule, horizon, k))
                    => passed = "True"
        /\ "top_turnover_20_mean" \notin DOMAIN metrics =>
              /\ Grid > rule.max_top_turnover_20_mean * horizon => passed = "False"
              /\ (Grid <= rule.max_top_turnover_20_mean * horizon
                    /\ OthersHold(metrics, rule, horizon, "top_turnover_20_mean"))
                    => passed = "True"
C4_Witness ==
    /\ passed = "False"
    /\ metrics = <<>>
    /\ rule.min_rank_ic > 0
    /\ Grid <= rule.max_top_turnover_20_mean * horizon

\* C5: once is_pass is False for a metrics mapping and a horizon, it is still
\* False after any single threshold of the rule is tightened.
C5_TighteningKeepsReject ==
    [][(passed = "False" /\ TightenedOnce(rule, rule')
            /\ metrics' = metrics /\ horizon' = horizon)
        => passed' = "False"]_vars
C5_Witness ==
    /\ passed = "False"
    /\ DOMAIN metrics = MetricKeys
    /\ \A k \in MetricKeys : ~metrics[k].nan
    /\ rule.max_top_turnover_20_mean = 0
    /\ rule.min_rank_ic > 0
    /\ AbsClause(metrics, "rank_ic_mean", rule.min_rank_ic)

\* C8: a registration under a name the registry already holds raises KeyError
\* and changes nothing, whether it comes through add_evaluator or
\* register_evaluator; no call ever changes or removes an entry bound before it.
C8_NoSilentOverride ==
    [][/\ Len(registry') >= Len(registry)
       /\ \A i \in 1..Len(registry) : registry'[i] = registry[i]
       /\ HasName(registry, regResult'.name) =>
             (regResult'.outcome = "KeyError" /\ registry' = registry)
       /\ ~HasName(registry, regResult'.name) =>
             (regResult'.outcome = "ok" /\ HasName(registry', regResult'.name))]_vars
C8_Witness ==
    /\ regResult.outcome = "KeyError"
    /\ regResult.op = "register_evaluator"
    /\ regResult.name = "decile"
    /\ Len(registry) = 3
    /\ ~Lookup(registry, "decile").wrapped

\* The h-th later date on which asset c has a row, counted from date d.
LaterDates(panel, d, c) == {d2 \in Dates : d2 > d /\ <<d2, c>> \in panel.index}
HthLater(panel, d, c, h) ==
    CHOOSE d2 \in LaterDates(panel, d, c) :
        Cardinality({x \in LaterDates(panel, d, c) : x <= d2}) = h

\* C9: in every column ret_fwd_{h}d returned, the value at (d, a) is computed
\* from a's own price on a's h-th later date and a's price on d, and is
\* missing on the last h dates of a; the column has the panel's index.
C9_OwnAssetShift ==
    (fwd.called /\ fwd.outcome = "ok") =>
        \A h \in SeqRange(fwd.horizons) :
            /\ h \in DOMAIN fwd.out
            /\ DOMAIN fwd.out[h] = df.index
            /\ \A key \in df.index :
                  LET d == key[1]
                      c == key[2]
                      v == fwd.out[h][key]
                  IN  IF Cardinality(LaterDates(df, d, c)) < h
                      THEN v.nan
                      ELSE /\ ~v.nan
                           /\ v.kind = fwd.kind
                           /\ v.cur = PriceAt(fwd.price_col, d, c)
                           /\ v.fut = PriceAt(fwd.price_col, HthLater(df, d, c, h), c)
C9_Witness ==
    /\ fwd.called /\ fwd.outcome = "ok"
    /\ fwd.horizons = <<1, 2>>
    /\ df.index = {<<1, "A">>, <<1, "B">>, <<2, "B">>, <<3, "A">>, <<3, "B">>}
    /\ ~fwd.out[1][<<1, "A">>].nan
    /\ fwd.out[2][<<1, "A">>].nan
    /\ ~fwd.out[2][<<1, "B">>].nan

\* C10: a call whose price column is not in the panel, or whose kind is
\* neither 'simple' nor 'log', ends in the configuration error (raised as
\* ValueError), whatever the list of horizons, the empty list included.
C10_BadArgumentsRaise ==
    (fwd.called /\ (fwd.price_col \notin df.columns \/ fwd.kind \notin {"simple", "log"}))
        => (fwd.outcome = "ValueError" /\ fwd.out = <<>>)
\* Where the claim does hold: a missing price column always raises.
C10_Witness ==
    /\ fwd.called
    /\ fwd.price_col \notin df.columns
    /\ fwd.horizons = <<>>
    /\ fwd.outcome = "ValueError"

\* ------------------------------------------------------ claims C1, C2, C7
\* The horizons of the last call's reports that pass the rule.
PassingHorizons ==
    {h \in DOMAIN call.reports :
        is_pass(admission_rule[1], call.reports[h].metrics, h)}
CallKey == <<call.spec.name, call.spec.version>>

\* C1: try_auto_admit admits with the EvalResult of the smallest horizon that
\* passes and returns True; when no horizon passes it returns False (and, by
\* C7, writes nothing).
C1_SmallestPassingAdmits ==
    call.op = "try_auto_admit" =>
        IF PassingHorizons = {}
        THEN call.outcome = "False"
        ELSE /\ call.outcome = "True"
             /\ CallKey \in DOMAIN auto_store
             /\ auto_store[CallKey].source_type = "auto"
             /\ auto_store[CallKey].last_eval_metrics
                    = call.reports[MinOf(PassingHorizons)].metrics
\* The half of C1 the code does deliver: no horizon passes, False is returned.
C1_Witness ==
    /\ call.op = "try_auto_admit"
    /\ DOMAIN call.reports = Horizons
    /\ PassingHorizons = {}
    /\ call.outcome = "False"

\* C2: no failure while handling a factor leaves process_all, and when
\* process_all returns every pending factor has an outcome in results.
C2_BatchNeverAborts ==
    /\ phase # "raised"
    /\ phase = "done" =>
          \A k \in 1..Len(auto_factors) : auto_factors[k].name \in DOMAIN results
\* The failures the code does catch: evaluation raised, the factor is recorded
\* as failed and the next one is handled.
C2_Witness ==
    /\ phase = "done"
    /\ Len(auto_factors) = MaxFactors
    /\ \A k \in 1..Len(auto_factors) : results[auto_factors[k].name] = "False"
    /\ hash_records = <<>>

\* C7: auto_admit_from_eval returns True, having written an 'auto' entry with
\* the metrics, description and tags, exactly when a rule is configured and
\* passes; otherwise it returns False and both stores stay as they were.
C7_PersistOnlyOnAdmission ==
    [][(call'.op = "auto_admit_from_eval" /\ call' # call) =>
        LET er == call'.reports[MinOf(DOMAIN call'.reports)]
            key == <<call'.spec.name, call'.spec.version>>
            admits == /\ admission_rule # <<>>
                      /\ is_pass(admission_rule[1], er.metrics, er.horizon)
        IN  IF admits
            THEN /\ call'.outcome = "True"
                 /\ key \in DOMAIN auto_store'
                 /\ auto_store'[key] =
                        FactorEntry(call'.spec, "auto", "", <<>>, er.metrics)
                 /\ \A k2 \in (DOMAIN auto_store) \ {key} :
                        k2 \in DOMAIN auto_store' /\ auto_store'[k2] = auto_store[k2]
                 /\ manual_store' = manual_store
            ELSE /\ call'.outcome = "False"
                 /\ auto_store' = auto_store
                 /\ manual_store' = manual_store]_vars
\* The case the code does deliver: no rule configured, False, nothing written.
C7_Witness ==
    /\ call.op = "auto_admit_from_eval"
    /\ admission_rule = <<>>
    /\ call.outcome = "False"
    /\ call.reports[MinOf(DOMAIN call.reports)].metrics = StrongMetrics

\* ------------------------------------------------------------- claim C6
\* The factor of the last evaluate call has one value per date.
ConstantWithinDates ==
    \A d \in DOMAIN eval_call.factor :
        \A j, k \in 1..NCodes :
            (~eval_call.factor[d][j].nan /\ ~eval_call.factor[d][k].nan)
                => eval_call.factor[d][j] = eval_call.factor[d][k]
Evaluated == eval_call.called /\ DOMAIN eval_call.result.metrics # {}

\* C6: when the factor is constant within every date, no date enters either
\* IC series, ic_mean and rank_ic_mean are undefined, and is_pass rejects the
\* metrics for every rule and every horizon.
C6_ConstantFactorRejected ==
    (Evaluated /\ ConstantWithinDates) =>
        /\ DOMAIN eval_call.result.artifacts.ic_series = {}
        /\ DOMAIN eval_call.result.artifacts.rank_ic_series = {}
        /\ eval_call.result.metrics.ic_mean.nan
        /\ eval_call.result.metrics.rank_ic_mean.nan
        /\ \A r \in Rules, h \in Horizons : ~is_pass(r, eval_call.result.metrics, h)
\* What the code does deliver for such a factor: the rank IC series is empty
\* and the metrics are rejected, also when the dates entered the IC series.
C6_Witness ==
    /\ Evaluated /\ ConstantWithinDates
    /\ DOMAIN eval_call.result.artifacts.ic_series = EvDates
    /\ DOMAIN eval_call.result.artifacts.rank_ic_series = {}
    /\ eval_call.result.metrics.rank_ic_mean.nan
    /\ \A r \in Rules, h \in Horizons : ~is_pass(r, eval_call.result.metrics, h)
\* For a constant factor rank_ic_mean is undefined and no rule admits.
C6_RankSeriesEmpty ==
    (Evaluated /\ ConstantWithinDates) =>
        /\ DOMAIN eval_call.result.artifacts.rank_ic_series = {}
        /\ eval_call.result.metrics.rank_ic_mean.nan
        /\ \A r \in Rules, h \in Horizons : ~is_pass(r, eval_call.result.metrics, h)

\* ------------------------------------------------------------ claim C11
\* C11: the aligned output holds exactly the index entries present in both
\* series whose factor value and return value are both non-missing, each
\* with its original factor value and its original return value.
C11_AlignedRows ==
    aligned.called =>
        LET f == aligned.factor
            r == aligned.ret
            out == aligned.out
        IN  /\ DOMAIN out = {k \in (DOMAIN f) \cap (DOMAIN r) : ~f[k].nan /\ ~r[k].nan}
            /\ \A k \in DOMAIN out : out[k].factor = f[k] /\ out[k].ret = r[k]
\* Series with different indexes and missing values, some rows of which
\* survive.
C11_Witness ==
    /\ aligned.called
    /\ DOMAIN aligned.out # {}
    /\ (DOMAIN aligned.factor) \ (DOMAIN aligned.ret) # {}
    /\ \E k \in (DOMAIN aligned.factor) \cap (DOMAIN aligned.ret) : aligned.ret[k].nan

\* ------------------------------------------------------------ claim C12
\* The (date, asset) entries of the last call at which factor and return are
\* both present and non-missing.
ValidEntries ==
    {key \in ((DOMAIN eval_call.factor) \cap (DOMAIN eval_call.ret)) \X (1..NCodes) :
        /\ ~eval_call.factor[key[1]][key[2]].nan
        /\ ~eval_call.ret[key[1]][key[2]].nan}

\* C12: when the index intersection is empty or nothing is left after the
\* missing values are dropped, the evaluation returns a result whose metrics
\* and artifacts are empty and whose notes hold the key "warning", through a
\* direct call of the evaluator and through evaluate_one alike.
C12_EmptyResult ==
    (eval_call.called /\ ValidEntries = {}) =>
        /\ DOMAIN eval_call.result.metrics = {}
        /\ DOMAIN eval_call.result.artifacts = {}
        /\ "warning" \in DOMAIN eval_call.result.notes
\* evaluate_one on a factor with values and returns that are all missing.
C12_Witness ==
    /\ eval_call.called /\ eval_call.via = "evaluate_one"
    /\ ValidEntries = {}
    /\ DOMAIN eval_call.ret = EvDates
    /\ DOMAIN eval_call.result.metrics = {}
    /\ eval_call.result.notes.warning = "empty intersection"

\* ------------------------------------------------------------ claim C13
\* C13: a multi-horizon evaluation returns a mapping with one result for
\* each requested horizon and no other key, and the result under h is the
\* evaluation of the factor against the forward-return column of h alone,
\* with h passed to the evaluator as its horizon; no other requested horizon
\* enters it.
C13_OneResultPerHorizon ==
    (fac_call.called /\ fac_call.outcome = "ok") =>
        /\ DOMAIN fac_call.results = SeqRange(fac_call.horizons)
        /\ \A h \in DOMAIN fac_call.results :
              LET tmp == align(FactorOn(df),
                               ForwardColumn(df, fac_call.price_col, fac_call.kind, h))
              IN  /\ DOMAIN fac_call.results[h] = {"common_eval"}
                  /\ fac_call.results[h].common_eval.factor = FactorColumn(tmp)
                  /\ fac_call.results[h].common_eval.ret = RetColumn(tmp)
                  /\ fac_call.results[h].common_eval.horizon = h
\* What the code does deliver: the keys are the requested horizons and every
\* result is computed from its own column, with the evaluator's default
\* horizon.
C13_OwnColumnDefaultHorizon ==
    (fac_call.called /\ fac_call.outcome = "ok") =>
        /\ DOMAIN fac_call.results = SeqRange(fac_call.horizons)
        /\ \A h \in DOMAIN fac_call.results :
              LET tmp == align(FactorOn(df),
                               ForwardColumn(df, fac_call.price_col, fac_call.kind, h))
              IN  /\ fac_call.results[h].common_eval.ret = RetColumn(tmp)
                  /\ fac_call.results[h].common_eval.horizon = 1
\* Two horizons evaluated on a panel that has returns at both, the longer one
\* with horizon 1.
C13_Witness ==
    /\ fac_call.called /\ fac_call.outcome = "ok"
    /\ DOMAIN fac_call.results = {1, 2}
    /\ DOMAIN fac_call.results[2].common_eval.ret # {}
    /\ fac_call.results[2].common_eval.ret # fac_call.results[1].common_eval.ret
    /\ fac_call.results[2].common_eval.horizon = 1

\* ------------------------------------------------------------ claim C14
\* C14: the date-by-bin table of an evaluation has exactly the q columns
\* 0..q-1, whatever bins the dates populated, also when no date could form
\* any bin.
C14_AlwaysQColumns ==
    Evaluated =>
        eval_call.result.artifacts.group_ret_by_day.columns = 0..(eval_call.q - 1)
\* What the code does deliver: a table with at least one row has the columns
\* 0..q-1 and every bin a date populated is one of them.
C14_QColumnsUnlessEmpty ==
    (Evaluated /\ DOMAIN eval_call.result.artifacts.group_ret_by_day.rows # {}) =>
        /\ eval_call.result.artifacts.group_ret_by_day.columns = 0..(eval_call.q - 1)
        /\ \A d \in DOMAIN eval_call.result.artifacts.group_ret_by_day.rows :
              DOMAIN eval_call.result.artifacts.group_ret_by_day.rows[d]
                  \subseteq 0..(eval_call.q - 1)
\* An evaluation with dates that have fewer valid rows than q: no date
\* forms a bin and the table has no column.
C14_Witness ==
    /\ Evaluated
    /\ eval_call.q = DefaultQ
    /\ DOMAIN eval_call.result.artifacts.ic_series # {}
    /\ DOMAIN eval_call.result.artifacts.group_ret_by_day.rows = {}
    /\ eval_call.result.artifacts.group_ret_by_day.columns = {}

\* ------------------------------------------------------------ claim C15
\* C15: every defined per-date turnover of the top bucket lies in [0, 1];
\* the first date of the input has an undefined turnover, and the mean is
\* taken over the defined values only.
C15_TurnoverInUnitInterval ==
    Evaluated =>
        LET ts == eval_call.result.artifacts.top_turnover_series
            later == {d \in DOMAIN ts : d # MinOf(DOMAIN ts)}
            vals == SeriesSeq([d \in {e \in later : ~ts[e].nan} |-> ts[d].v])
        IN  /\ \A d \in DOMAIN ts : ~ts[d].nan => (0 <= ts[d].v /\ ts[d].v <= CntScale)
            /\ ts[MinOf(DOMAIN ts)].nan
            /\ eval_call.result.metrics.top_turnover_20_mean =
                  (IF vals = <<>> THEN NaN
                   ELSE Num(Ceil(Total(vals) * Grid, Len(vals) * CntScale)))
\* Two dates whose top buckets differ: the first turnover is undefined, the
\* second is 1, and so is the mean.
C15_Witness ==
    /\ Evaluated
    /\ DOMAIN eval_call.result.artifacts.top_turnover_series = {1, 2}
    /\ eval_call.result.artifacts.top_turnover_series[1].nan
    /\ eval_call.result.artifacts.top_turnover_series[2] = Num(CntScale)
    /\ eval_call.result.metrics.top_turnover_20_mean = Num(Grid)

\* ------------------------------------------------------------ claim C16
\* The caller's r / h: every return of the panel divided by h.
DividedBy(ret, h) ==
    [d \in DOMAIN ret |->
        [k \in 1..NCodes |-> IF ret[d][k].nan THEN NaN ELSE Num(FlRound(ret[d][k].v, h))]]

\* C16: evaluating returns r at a horizon h > 1 gives the metrics of
\* evaluating r / h at horizon 1, and at a horizon <= 1 the returns are used
\* undivided.
C16_HorizonAmortisation ==
    (eval_call.called /\ eval_call.via = "evaluate") =>
        /\ eval_call.horizon > 1 =>
              eval_call.result.metrics =
                  evaluate(eval_call.factor, DividedBy(eval_call.ret, eval_call.horizon),
                           eval_call.q, TRUE, 1).metrics
        /\ eval_call.horizon <= 1 =>
              \A d \in DOMAIN eval_call.ret, k \in 1..NCodes :
                  Amortised(eval_call.ret[d][k].v, eval_call.horizon) = eval_call.ret[d][k].v
\* An evaluation at a horizon above 1 whose long-short mean is a number
\* other than 0.
C16_Witness ==
    /\ Evaluated /\ eval_call.via = "evaluate"
    /\ eval_call.horizon > 1
    /\ ~eval_call.result.metrics.group_ls_mean.nan
    /\ eval_call.result.metrics.group_ls_mean.v # 0
    /\ eval_call.result.metrics = 
          evaluate(eval_call.factor, DividedBy(eval_call.ret, eval_call.horizon),
                   eval_call.q, TRUE, 1).metrics

\* ------------------------------------------------------------ claim C20
\* A series has two values or more and they are all the same: its sample
\* standard deviation is within the threshold.
FlatSeries(series) ==
    /\ Cardinality(DOMAIN series) >= 2
    /\ \A d, e \in DOMAIN series : series[d] = series[e]
\* The value a flat series repeats.
FlatValue(series) == series[MinOf(DOMAIN series)]

\* C20: summary statistics of a series with fewer than two values are all
\* undefined (mean, std, ir, t); of a series with two values or more whose
\* sample standard deviation is within the threshold, ir and t are undefined
\* while mean and std are returned; the same for the IC series, the rank IC
\* series and the long-short series.
C20_SummaryStatistics ==
    Evaluated =>
        LET m == eval_call.result.metrics
            ic == eval_call.result.artifacts.ic_series
            rank_ic == eval_call.result.artifacts.rank_ic_series
            ls == Defined(eval_call.result.artifacts.ls_series)
        IN  /\ Cardinality(DOMAIN ic) < 2 =>
                  m.ic_mean.nan /\ m.ic_std.nan /\ m.ic_ir.nan /\ m.ic_t.nan
            /\ FlatSeries(ic) =>
                  /\ m.ic_mean = Num(FlatValue(ic)) /\ m.ic_std = Num(0)
                  /\ m.ic_ir.nan /\ m.ic_t.nan
            /\ Cardinality(DOMAIN rank_ic) < 2 =>
                  /\ m.rank_ic_mean.nan /\ m.rank_ic_std.nan
                  /\ m.rank_ic_ir.nan /\ m.rank_ic_t.nan
            /\ FlatSeries(rank_ic) =>
                  /\ m.rank_ic_mean = Num(FlatValue(rank_ic)) /\ m.rank_ic_std = Num(0)
                  /\ m.rank_ic_ir.nan /\ m.rank_ic_t.nan
            /\ Cardinality(DOMAIN ls) < 2 => m.group_ls_mean.nan /\ m.group_ls_t.nan
            /\ FlatSeries(ls) =>
                  m.group_ls_mean = Num(FlatValue(ls)) /\ m.group_ls_t.nan
\* An evaluation with the same rank IC on every date, two dates or more: its
\* mean is returned and its ir is undefined.
C20_Witness ==
    /\ Evaluated
    /\ FlatSeries(eval_call.result.artifacts.rank_ic_series)
    /\ ~eval_call.result.metrics.rank_ic_mean.nan
    /\ eval_call.result.metrics.rank_ic_ir.nan

\* ------------------------------------------------------------ claim C19
\* The factor values and the returns correlated on date d of the last call:
\* those of its valid rows, the returns amortised.
DayRows(d) ==
    IF d \in (DOMAIN eval_call.factor) \cap (DOMAIN eval_call.ret)
    THEN ValidRows(eval_call.factor, eval_call.ret, d)
    ELSE <<>>
DayFactors(d) ==
    [k \in 1..Len(DayRows(d)) |-> eval_call.factor[d][DayRows(d)[k]].v]
DayReturns(d) ==
    [k \in 1..Len(DayRows(d)) |->
        Amortised(eval_call.ret[d][DayRows(d)[k]].v, eval_call.horizon)]
\* Fewer than 2 observations, or no variance in the factor or in the return.
Degenerate(d) ==
    \/ Len(DayRows(d)) < 2
    \/ AllEqual(DayFactors(d))
    \/ AllEqual(DayReturns(d))

\* C19: a date with fewer than 2 observations or with zero variance of the
\* factor or of the return has no entry in the IC series and none in the rank
\* IC series; every other date has exactly one entry in each.
C19_DegenerateDatesExcluded ==
    Evaluated =>
        \A d \in EvDates :
            /\ d \in DOMAIN eval_call.result.artifacts.ic_series <=> ~Degenerate(d)
            /\ d \in DOMAIN eval_call.result.artifacts.rank_ic_series <=> ~Degenerate(d)
\* What the code does deliver: the rank IC series holds exactly the dates
\* that are not degenerate, and the IC series holds at least those.
C19_RankSeriesExact ==
    Evaluated =>
        \A d \in EvDates :
            /\ d \in DOMAIN eval_call.result.artifacts.rank_ic_series <=> ~Degenerate(d)
            /\ ~Degenerate(d) => d \in DOMAIN eval_call.result.artifacts.ic_series
\* A date whose factor has no variance and which has an entry in the IC
\* series, next to a date that is not degenerate.
C19_Witness ==
    /\ Evaluated
    /\ \E d \in EvDates :
          /\ Len(DayRows(d)) >= 2 /\ AllEqual(DayFactors(d))
          /\ d \in DOMAIN eval_call.result.artifacts.ic_series
          /\ d \notin DOMAIN eval_call.result.artifacts.rank_ic_series
    /\ \E d \in EvDates :
          ~Degenerate(d) /\ d \in DOMAIN eval_call.result.artifacts.rank_ic_series

\* ------------------------------------------------------------ claim C17
\* Two correlations given by their parts are the same number.
SameCorr(a, b) ==
    /\ Sgn(a.cov) = Sgn(b.cov)
    /\ a.cov * a.cov * b.vx * b.vy = b.cov * b.cov * a.vx * a.vy
\* compute_rank_ic_by_date has run every iteration.
RankIcDone == kernel.called /\ kernel.fn = "rank_ic" /\ pending = {}
\* Date d of the kernel's input has 2 valid rows or more and variance in the
\* factor and in the return.
NonDegenerate(d) ==
    /\ Len(KernelFactors(kernel.factor, kernel.ret, d)) >= 2
    /\ ~AllEqual(KernelFactors(kernel.factor, kernel.ret, d))
    /\ ~AllEqual(KernelReturns(kernel.factor, kernel.ret, d))
\* Date d has equal values among its factor values or among its returns.
Tied(d) ==
    LET fs == KernelFactors(kernel.factor, kernel.ret, d)
        rs == KernelReturns(kernel.factor, kernel.ret, d)
    IN  \E j, k \in 1..Len(fs) : j # k /\ (fs[j] = fs[k] \/ rs[j] = rs[k])

\* C17: on every date that is not degenerate, tied values or not, the
\* kernel's rank IC is the evaluator's Spearman rank IC of the same rows.
C17_KernelRankIcIsSpearman ==
    RankIcDone =>
        \A d \in EvDates :
            NonDegenerate(d) =>
                /\ ~ic_array[d].nan
                /\ SameCorr(ic_array[d],
                            SpearmanParts(KernelFactors(kernel.factor, kernel.ret, d),
                                          KernelReturns(kernel.factor, kernel.ret, d)))
\* What the code does deliver: the two agree on the dates without ties.
C17_EqualWithoutTies ==
    RankIcDone =>
        \A d \in EvDates :
            (NonDegenerate(d) /\ ~Tied(d)) =>
                /\ ~ic_array[d].nan
                /\ SameCorr(ic_array[d],
                            SpearmanParts(KernelFactors(kernel.factor, kernel.ret, d),
                                          KernelReturns(kernel.factor, kernel.ret, d)))
\* A date with tied factor values on which the kernel's value is not the
\* Spearman rank IC, next to an untied date on which it is.
C17_Witness ==
    /\ RankIcDone
    /\ \E d \in EvDates :
          /\ NonDegenerate(d) /\ Tied(d) /\ ~ic_array[d].nan
          /\ ~SameCorr(ic_array[d],
                       SpearmanParts(KernelFactors(kernel.factor, kernel.ret, d),
                                     KernelReturns(kernel.factor, kernel.ret, d)))
    /\ \E d \in EvDates :
          /\ NonDegenerate(d) /\ ~Tied(d) /\ Len(KernelFactors(kernel.factor, kernel.ret, d)) = NCodes
          /\ SameCorr(ic_array[d],
                      SpearmanParts(KernelFactors(kernel.factor, kernel.ret, d),
                                    KernelReturns(kernel.factor, kernel.ret, d)))

\* ------------------------------------------------------------ claim C18
\* The output of the running kernel, and what its loop gives in date order.
KernelOutput == IF kernel.fn = "rank_ic" THEN ic_array ELSE group_returns
SequentialOutput ==
    IF kernel.fn = "rank_ic"
    THEN compute_rank_ic_by_date(kernel.factor, kernel.ret, kernel.policy)
    ELSE compute_group_return_by_date(kernel.factor, kernel.ret, kernel.q, kernel.policy)

\* C18: an iteration of a kernel's parallel loop changes no output slot but
\* that of its own date and leaves the inputs alone, and once every
\* iteration has run, in whatever order, the output is that of the loop run
\* in date order.
C18_OrderIndependent ==
    /\ []((kernel.called /\ pending = {}) => KernelOutput = SequentialOutput)
    /\ [][kernel.called =>
            /\ kernel' = kernel
            /\ \A d \in EvDates :
                  d \notin (pending \ pending') =>
                      /\ ic_array'[d] = ic_array[d]
                      /\ group_returns'[d] = group_returns[d]]_vars
\* The last date ran first: its slot is written while the first date is
\* still pending.
C18_Witness ==
    /\ kernel.called /\ kernel.fn = "group_ret"
    /\ pending = {1}
    /\ group_returns[MaxEvalDates] = SequentialOutput[MaxEvalDates]
    /\ \E l \in 0..(kernel.q - 1) : ~group_returns[MaxEvalDates][l].nan

\* ------------------------------------------------------------ claim C21
\* The bins date d populated in the table of the last evaluation.
PopulatedBins(d) == DOMAIN eval_call.result.artifacts.group_ret_by_day.rows[d]
\* The mean return of bin l on date d, times CntScale.
BinMean(d, l) ==
    LET cell == eval_call.result.artifacts.group_ret_by_day.rows[d][l]
    IN  cell.sum * (CntScale \div cell.cnt)

\* C21: on every date that populated a bin, the long-short return is the
\* mean return of the highest populated bin of that date minus the mean
\* return of its lowest populated bin, also when ties at a boundary left the
\* date fewer than q populated bins.
C21_SpreadOfPopulatedBins ==
    Evaluated =>
        \A d \in DOMAIN eval_call.result.artifacts.group_ret_by_day.rows :
            eval_call.result.artifacts.ls_series[d]
                = Num(BinMean(d, MaxOf(PopulatedBins(d))) - BinMean(d, MinOf(PopulatedBins(d))))
\* What the code does deliver: the spread of the populated bins on the dates
\* that populated both bin q-1 and bin 0, and no value on the other dates.
C21_SpreadOfOuterColumns ==
    Evaluated =>
        \A d \in DOMAIN eval_call.result.artifacts.group_ret_by_day.rows :
            IF {0, eval_call.q - 1} \subseteq PopulatedBins(d)
            THEN eval_call.result.artifacts.ls_series[d]
                    = Num(BinMean(d, MaxOf(PopulatedBins(d)))
                            - BinMean(d, MinOf(PopulatedBins(d))))
            ELSE eval_call.result.artifacts.ls_series[d] = NaN
\* A date whose tied factor values left it fewer than q populated bins: its
\* long-short return is undefined, next to a date that populated all q.
C21_Witness ==
    /\ Evaluated
    /\ \E d \in DOMAIN eval_call.result.artifacts.group_ret_by_day.rows :
          /\ PopulatedBins(d) # {}
          /\ Cardinality(PopulatedBins(d)) < eval_call.q
          /\ eval_call.result.artifacts.ls_series[d] = NaN
    /\ \E d \in DOMAIN eval_call.result.artifacts.group_ret_by_day.rows :
          /\ Cardinality(PopulatedBins(d)) = eval_call.q
          /\ ~eval_call.result.artifacts.ls_series[d].nan

\* ------------------------------------------------------------ claim C22
\* compute_group_return_by_date has run every iteration.
GroupRetDone == kernel.called /\ kernel.fn = "group_ret" /\ pending = {}
\* The observations of date d of the kernel's input: its valid rows.
Observations(d) == Len(KernelFactors(kernel.factor, kernel.ret, d))
\* The Common Evaluator's table of group returns on the kernel's input.
EvaluatorTable ==
    LET res == evaluate(kernel.factor, kernel.ret, kernel.q, TRUE, 1)
    IN  IF DOMAIN res.artifacts = {} THEN group_table(<<>>, kernel.q)
        ELSE res.artifacts.group_ret_by_day

\* C22: a date with fewer than q observations has every bin missing in the
\* kernel's table and no row in the Common Evaluator's table, and the other
\* dates still get their results: in the kernel every one of their q bins,
\* in the evaluator the bins qcut formed of them.
C22_ShortDatesSkipped ==
    GroupRetDone =>
        \A d \in EvDates :
            IF Observations(d) < kernel.q
            THEN /\ \A l \in 0..(kernel.q - 1) : group_returns[d][l].nan
                 /\ d \notin DOMAIN EvaluatorTable.rows
            ELSE /\ \A l \in 0..(kernel.q - 1) : ~group_returns[d][l].nan
                 /\ LET row == get_group_ret(KernelFactors(kernel.factor, kernel.ret, d),
                                             KernelReturns(kernel.factor, kernel.ret, d),
                                             kernel.q)
                    IN  IF DOMAIN row = {} THEN d \notin DOMAIN EvaluatorTable.rows
                        ELSE /\ d \in DOMAIN EvaluatorTable.rows
                             /\ EvaluatorTable.rows[d] = row
\* A date with one observation, fewer than q, is skipped by both and the
\* date after it has its bins in both tables.
C22_Witness ==
    /\ GroupRetDone
    /\ Observations(1) > 0 /\ Observations(1) < kernel.q
    /\ \A l \in 0..(kernel.q - 1) : group_returns[1][l].nan
    /\ 1 \notin DOMAIN EvaluatorTable.rows
    /\ \A l \in 0..(kernel.q - 1) : ~group_returns[MaxEvalDates][l].nan
    /\ DOMAIN EvaluatorTable.rows[MaxEvalDates] = 0..(kernel.q - 1)

\* ------------------------------------------------------------ claim C23
\* The size the claim gives bin b of n elements in q bins.
BinSize(n, q, b) == n \div q + (IF b < n % q THEN 1 ELSE 0)
\* The labels compute_quantile_labels gives the observations of date d.
DateLabels(d) ==
    compute_quantile_labels(KernelFactors(kernel.factor, kernel.ret, d), kernel.q,
                            kernel.policy)

\* C23: compute_quantile_labels gives each of n values one label in 0..q-1,
\* a smaller value never a larger label than a larger value, and bin b
\* exactly floor(n/q) elements plus one when b < n mod q; the bins the kernel
\* fills for a date hold that many returns each.
C23_QuantileLabels ==
    (kernel.called /\ kernel.fn = "group_ret") =>
        \A d \in EvDates :
            LET xs == KernelFactors(kernel.factor, kernel.ret, d)
                n == Len(xs)
                labels == DateLabels(d)
            IN  /\ DOMAIN labels = 1..n
                /\ \A k \in 1..n : labels[k] \in 0..(kernel.q - 1)
                /\ \A i, j \in 1..n : xs[i] < xs[j] => labels[i] <= labels[j]
                /\ \A b \in 0..(kernel.q - 1) :
                      Cardinality({k \in 1..n : labels[k] = b}) = BinSize(n, kernel.q, b)
                /\ (d \notin pending /\ n >= kernel.q) =>
                      \A b \in 0..(kernel.q - 1) :
                          group_returns[d][b].cnt = BinSize(n, kernel.q, b)
\* The kernel has binned a date of three observations, two of them tied:
\* bin 0 holds the share of the claim and the tied values got their labels.
C23_Witness ==
    /\ kernel.called /\ kernel.fn = "group_ret"
    /\ \E d \in EvDates \ pending :
          /\ Observations(d) = NCodes /\ Observations(d) >= kernel.q
          /\ \E i, j \in 1..NCodes : i # j /\ kernel.factor[d][i] = kernel.factor[d][j]
          /\ group_returns[d][0].cnt = BinSize(NCodes, kernel.q, 0)
          /\ group_returns[d][kernel.q - 1].cnt = BinSize(NCodes, kernel.q, kernel.q - 1)

\* ------------------------------------------------------------ claim C24
\* What the evaluator of the last evaluate_one call computes of the aligned
\* columns.
Delegated ==
    LET tmp == align(SeriesOf(eval_call.factor), SeriesOf(eval_call.ret))
    IN  evaluate(PanelOf(FactorColumn(tmp)), PanelOf(RetColumn(tmp)), eval_call.q, TRUE,
                 eval_call.horizon)

\* C24: the result of evaluate_one carries the metrics, artifacts and notes
\* its evaluator computed of the aligned columns; its factor_name is the
\* evaluator's where the evaluator set one (the common evaluator names it
\* after the column it is given), and the name of the input factor where
\* the evaluator left it absent.
C24_FactorNameFilledWhenAbsent ==
    (eval_call.called /\ eval_call.via = "evaluate_one") =>
        /\ eval_call.result.metrics = Delegated.metrics
        /\ eval_call.result.artifacts = Delegated.artifacts
        /\ eval_call.result.notes = Delegated.notes
        /\ eval_call.evaluator = "common_eval" =>
              eval_call.result.factor_name = <<"factor">>
        /\ eval_call.evaluator = "plain" =>
              eval_call.result.factor_name = eval_call.name
\* A named factor evaluated by the common evaluator keeps the evaluator's
\* identifier, with metrics in the result.
C24_WitnessKept ==
    /\ Evaluated /\ eval_call.via = "evaluate_one"
    /\ eval_call.evaluator = "common_eval"
    /\ eval_call.name = <<"alpha">>
    /\ eval_call.result.factor_name = <<"factor">>
    /\ ~eval_call.result.metrics.group_ls_mean.nan
\* A named factor evaluated by an evaluator that sets no identifier gets
\* its own name on the result.
C24_Witness ==
    /\ Evaluated /\ eval_call.via = "evaluate_one"
    /\ eval_call.evaluator = "plain"
    /\ eval_call.result.factor_name = <<"alpha">>

\* ------------------------------------------------------------ claim C25
\* The value parameter k of factor n was given by the strongest of the
\* three givers of the last compute_all call that names it, per-factor
\* before global before default.
ByPrecedence(n, k) ==
    IF n \in DOMAIN compute_call.per_factor_params
       /\ k \in DOMAIN compute_call.per_factor_params[n]
    THEN compute_call.per_factor_params[n][k]
    ELSE IF k \in DOMAIN compute_call.override_params
    THEN compute_call.override_params[k]
    ELSE spec_params(n)[k]

\* C25: every factor compute_all computes is called with, for each of its
\* parameters, the per-factor value when per_factor_params gives one for
\* that factor, else the global override_params value when there is one,
\* else the factor's default.
C25_PerFactorOverGlobal ==
    compute_call.called =>
        \A n \in DOMAIN compute_call.out, k \in ParamKeys :
            compute_call.out[n].params[k] = ByPrecedence(n, k)
\* What the code does deliver: the global value wins over the per-factor
\* value, and both win over the default.
C25_GlobalOverPerFactor ==
    compute_call.called =>
        \A n \in DOMAIN compute_call.out, k \in ParamKeys :
            compute_call.out[n].params[k] =
                IF k \in DOMAIN compute_call.override_params
                THEN compute_call.override_params[k]
                ELSE IF n \in DOMAIN compute_call.per_factor_params
                        /\ k \in DOMAIN compute_call.per_factor_params[n]
                THEN compute_call.per_factor_params[n][k]
                ELSE spec_params(n)[k]
\* A parameter given per factor and globally with different values: the
\* factor is computed with the global one.
C25_Witness ==
    /\ compute_call.called
    /\ \E n \in DOMAIN compute_call.out, k \in ParamKeys :
          /\ n \in DOMAIN compute_call.per_factor_params
          /\ k \in DOMAIN compute_call.per_factor_params[n]
          /\ k \in DOMAIN compute_call.override_params
          /\ compute_call.per_factor_params[n][k] # compute_call.override_params[k]
          /\ compute_call.out[n].params[k] = compute_call.override_params[k]

\* ------------------------------------------------------------ claim C26
\* The loop of process_all stands before the factor auto_factors[idx].
AtFactor == phase = "running" /\ idx <= Len(auto_factors)
\* force_reprocess is off and the hash recorded under the factor's name is
\* its current hash.
HashUnchanged(spec) ==
    /\ ~force_reprocess
    /\ spec.name \in DOMAIN hash_records
    /\ hash_records[spec.name] = compute_factor_hash(spec)

\* C26: the pass of process_all's loop over a pending factor skips it
\* (outcome None, hash records, their file and both stores as they were)
\* when force_reprocess is off and the recorded hash is the current one, and
\* in every other case processes it: the pass ends with the outcome True or
\* False for the factor, or with the exception that ends the run.
C26_SkipRule ==
    [][AtFactor =>
          LET spec == auto_factors[idx]
          IN  IF HashUnchanged(spec)
              THEN /\ results' = DictPut(results, spec.name, "None")
                   /\ phase' = "running"
                   /\ UNCHANGED <<hash_records, hash_file, manual_store, auto_store>>
              ELSE \/ phase' = "raised"
                   \/ /\ spec.name \in DOMAIN results'
                      /\ results'[spec.name] \in {"True", "False"}]_vars
\* One factor was skipped for its unchanged hash and another, whose
\* recorded hash was stale, was processed in the same run.
C26_Witness ==
    /\ phase = "done"
    /\ ~force_reprocess
    /\ \E n \in DOMAIN results :
          /\ results[n] = "None"
          /\ hash_records[n] = compute_factor_hash(FactorSpec(n))
    /\ \E n \in DOMAIN results : results[n] = "False"

\* ------------------------------------------------------------ claim C27
\* The pass of the loop that is being taken processes its factor: call
\* holds, after it, what evaluate_factor returned.
Processing == AtFactor /\ ~HashUnchanged(auto_factors[idx])
\* A later run with force_reprocess off would process the factor.
ProcessedAgain(records, spec) == should_process_factor(FALSE, records, spec)

\* C27: a pass that processes a factor records the factor's current hash,
\* and writes the records to their file where the file can be written, when
\* the evaluation returned reports, admitted or not; when it returned none
\* the records and the file stay as they were and a later run without
\* force_reprocess processes the factor again.
C27_HashRecordedIffReports ==
    [][Processing =>
          LET spec == auto_factors[idx]
          IN  IF DOMAIN call'.reports # {}
              THEN /\ hash_records' =
                         DictPut(hash_records, spec.name, compute_factor_hash(spec))
                   /\ hash_file' \in {hash_records', hash_file}
              ELSE /\ UNCHANGED <<hash_records, hash_file>>
                   /\ ProcessedAgain(hash_records', spec)]_vars
\* What the code does deliver: the hash is recorded when the evaluation
\* returned reports and admission returned; without reports, and when
\* admission raised, the records and the file stay as they were; and after
\* a pass without reports that was not forced, a later run without
\* force_reprocess processes the factor again.
C27_HashRecordedUnlessRaised ==
    [][Processing =>
          LET spec == auto_factors[idx]
          IN  IF DOMAIN call'.reports # {} /\ phase' # "raised"
              THEN /\ hash_records' =
                         DictPut(hash_records, spec.name, compute_factor_hash(spec))
                   /\ hash_file' \in {hash_records', hash_file}
              ELSE /\ UNCHANGED <<hash_records, hash_file>>
                   /\ (DOMAIN call'.reports = {} /\ ~force_reprocess) =>
                          ProcessedAgain(hash_records', spec)]_vars
\* The evaluation returned reports, admission raised, and the factor's hash
\* is not on record.
C27_Witness ==
    /\ phase = "raised"
    /\ call.op = "evaluate_factor"
    /\ DOMAIN call.reports # {}
    /\ call.spec.name \notin DOMAIN hash_records
\* The evaluation returned reports, no horizon passed, and the hash was
\* recorded and written.
C27_WitnessRecorded ==
    /\ phase = "running"
    /\ call.op = "evaluate_factor"
    /\ DOMAIN call.reports # {}
    /\ call.outcome = "False"
    /\ call.spec.name \in DOMAIN hash_records
    /\ hash_records[call.spec.name] = compute_factor_hash(call.spec)
    /\ hash_file = hash_records

\* ------------------------------------------------------------ claim C28
\* The names with an entry in the manual or in the auto store.
Stored == StoreNames(manual_store) \cup StoreNames(auto_store)
\* The names of the pending list of the run.
PendingNames == {auto_factors[k].name : k \in 1..Len(auto_factors)}

\* C28: the pending list process_all starts with holds each registered
\* factor that has no entry in either store, and is among the requested
\* names when names were requested, once and in registration order, and
\* nothing else; and a pass of its loop evaluates a factor only if neither
\* store had an entry under its name.
C28_StoredNeverPending ==
    /\ [][phase = "idle" =>
            /\ {auto_factors'[k].name : k \in 1..Len(auto_factors')} =
                  {n \in FactorNames :
                      /\ n \notin Stored
                      /\ factor_names # <<>> => n \in factor_names[1]}
            /\ \A j, k \in 1..Len(auto_factors') :
                  j < k => auto_factors'[j].name < auto_factors'[k].name]_vars
    /\ [][(AtFactor /\ call' # call) =>
            /\ call'.op = "evaluate_factor"
            /\ call'.spec.name \in PendingNames
            /\ call'.spec.name \notin Stored]_vars
\* A run over a catalog that holds one registered factor by hand: the other
\* one was pending and evaluated, the stored one got no outcome.
C28_Witness ==
    /\ phase = "done"
    /\ StoreNames(manual_store) # {}
    /\ call.op = "evaluate_factor"
    /\ call.spec.name \in DOMAIN results
    /\ \A n \in Stored : n \notin DOMAIN results
    /\ DOMAIN results # {}

\* ------------------------------------------------------------ claim C29
\* The fields of an entry the round trip is to keep.
Kept(entry) ==
    [name |-> entry.spec.name, version |-> entry.spec.version,
     source_type |-> entry.source_type, description |-> entry.description,
     tags |-> entry.tags, metrics |-> entry.last_eval_metrics]
\* What load_entry(name, version) is to return: the entry last saved under
\* (name, version) and not deleted since, or None.
Expected(name, version) ==
    IF <<name, VersionOr(version)>> \in DOMAIN saved
    THEN {Kept(saved[<<name, VersionOr(version)>>])}
    ELSE {}
\* What a load_entry call returned, by the fields to keep.
Returned(result) == {Kept(result[k]) : k \in 1..Len(result)}

\* C29: load_entry(name, version) returns the entry last saved under (name,
\* version), with its name, version, source type, description, tags and
\* metrics, if there is one that was not deleted since, and None otherwise;
\* list_entries returns exactly the entries that can be loaded, no two of
\* them under the same name and version.
C29_RoundTrip ==
    /\ store_call.op = "load_entry" =>
          Returned(store_call.result) = Expected(store_call.name, store_call.version)
    /\ store_call.op = "list_entries" =>
          /\ {Kept(e) : e \in store_call.result} = {Kept(saved[key]) : key \in DOMAIN saved}
          /\ \A e1, e2 \in store_call.result :
                (e1.spec.name = e2.spec.name /\ e1.spec.version = e2.spec.version) => e1 = e2
\* Two pairs of name and version whose directories have the same name.
Colliding(name, version) ==
    \E n \in NameStrings, v \in VersionStrings :
        /\ <<n, v>> # <<name, VersionOr(version)>>
        /\ get_entry_dir(n, v) = get_entry_dir(name, VersionOr(version))
\* What the code does deliver: the round trip for every name and version
\* whose directory no other pair shares, and a list that holds exactly what
\* load_entry returns for some name and version.
C29_RoundTripPerDirectory ==
    /\ (store_call.op = "load_entry" /\ ~Colliding(store_call.name, store_call.version)) =>
          Returned(store_call.result) = Expected(store_call.name, store_call.version)
    /\ store_call.op = "list_entries" =>
          store_call.result =
              UNION {SeqRange(FactorStore_load_entry(base_dir, n, v)) :
                        n \in NameStrings, v \in VersionStrings}
\* load_entry returned an entry saved under another name and version than
\* the one asked for, which was saved too and not deleted.
C29_Witness ==
    /\ store_call.op = "load_entry"
    /\ <<store_call.name, VersionOr(store_call.version)>> \in DOMAIN saved
    /\ store_call.result # <<>>
    /\ store_call.result[1].spec.name # store_call.name
\* load_entry returned the entry as it was last saved, after an earlier
\* save under the same name and version with another description.
C29_WitnessKept ==
    /\ store_call.op = "load_entry"
    /\ ~Colliding(store_call.name, store_call.version)
    /\ store_call.result # <<>>
    /\ store_call.result[1].description = MaxDescr
    /\ Returned(store_call.result) = Expected(store_call.name, store_call.version)

\* ------------------------------------------------------------ claim C30
Lookups == {"compute_factor", "get_factor_spec", "get_factor_entry"}
\* The key the last lookup asked for, no version meaning "v1".
AskedKey == <<call.name, IF call.version = <<>> THEN "v1" ELSE call.version[1]>>
\* What each lookup is to return for a found entry.
FoundValue(op, entry) ==
    IF op = "compute_factor" THEN <<[name |-> entry.name, func |-> entry.func]>>
    ELSE IF op = "get_factor_spec"
    THEN <<[name |-> entry.name, version |-> entry.version, func |-> entry.func]>>
    ELSE <<entry>>

====
